---- MODULE Spec2Model ----
(***************************************************************************)
(* Model of the openchambers ingestion pipeline (DebatePipeline, the       *)
(* Debates loader, UtteranceRepository) and of the retrieval engine        *)
(* (HansardRetrievalTool).                                                  *)
(***************************************************************************)
EXTENDS Integers, Sequences, FiniteSets, TLC

(***************************************************************************)
(* Bounds                                                                  *)
(***************************************************************************)
NumDocs == 3
MaxBatchSize == 2
MaxMaxBatches == 1
MaxRuns == 2
MaxCrashes == 1
NumUtterances == 2
NumChunks == 2
TopK == 2
MaxElems == 4
NumDates == 2
MaxFiles == 3
MaxSentences == 4
MaxRows == 1

(***************************************************************************)
(* Optional values: Python None and a present value                        *)
(***************************************************************************)
None == <<>>
Some(v) == <<v>>
Val(o) == o[1]

VARIABLES
    docSpeeches,       \* input set: per document, -1 = _parse_xml raises, else number of speeches
    checkpointFile,    \* the checkpoint file on disk
    utteranceTbl,      \* table utterance
    chunkTbl,          \* table utterance_chunk
    embeddingTbl,      \* table embedding
    pc,                \* position of the ingestion process
    batch_size,        \* DebatePipeline.batch_size
    max_batches,       \* DebatePipeline.max_batches
    processed_files,   \* DebatePipeline._processed_files
    batch_number,      \* iter_batches' batch_number
    batches_processed, \* run's batches_processed
    loaded_df,         \* the DataFrame yielded by iter_batches
    batch_df,          \* run's batch_df
    new_files,         \* run's new_files
    failedAt,          \* the step whose call raised in the failed batch
    endedBy,           \* how the latest invocation of run ended
    prevEnd,           \* how the invocation before the current one ended
    runs,              \* invocations of run so far
    crashes,           \* process crashes so far
    ckptAtStart,       \* _processed_files when the current invocation of run began
    rowsAtStart,       \* row counts of the three tables when the current invocation began
    handled,           \* documents whose rows were handed to a transform in this invocation
    stored,            \* documents whose rows were committed in this invocation
    completed,         \* documents of the batches completed in this invocation
    loads,             \* load_batch calls of this invocation that parsed documents
    skipped,           \* batches skipped in this invocation
    top_k,             \* HansardRetrievalTool.top_k
    min_similarity,    \* HansardRetrievalTool.min_similarity
    call,              \* the arguments of the latest fetch or fetch_bm25
    result             \* the list the latest _chunk_search returned

pipeVars == <<docSpeeches, checkpointFile, utteranceTbl, chunkTbl, embeddingTbl, pc,
              batch_size, max_batches, processed_files, batch_number, batches_processed,
              loaded_df, batch_df, new_files, failedAt, endedBy, prevEnd, runs,
              crashes, ckptAtStart, rowsAtStart, handled, stored, completed, loads, skipped>>

searchVars == <<top_k, min_similarity, call, result>>

VARIABLES
    elems,             \* the elements root.iter() has yielded so far in _parse_xml
    context,           \* _parse_xml's context dictionary
    prevContext,       \* the context dictionary before the latest element
    records,           \* _parse_xml's records list
    parsed,            \* how _parse_xml ended, and the DataFrame it returned
    listing,           \* the .xml names os.listdir returned, in its order
    loader_files,      \* Debates.files
    chunk_in,          \* the rows handed to ChunkingTransformer.transform
    chunk_cfg,         \* the ChunkingTransformer's max_seq_length, chunk_size, overlap
    chunk_out          \* the rows ChunkingTransformer.transform returned

parseVars == <<elems, context, prevContext, records, parsed>>
listingVars == <<listing, loader_files>>
chunkVars == <<chunk_in, chunk_cfg, chunk_out>>
loaderVars == <<parseVars, listingVars, chunkVars>>

VARIABLES
    metaInput,         \* the rows MetadataLoader reads from the metadata files at present
    personTbl,         \* table person
    membershipTbl,     \* table membership
    divisionTbl,       \* table division
    voteTbl,           \* table vote
    policyTbl,         \* table mp_policy_summary
    metaRuns,          \* runs of MetadataPipeline so far
    cacheFile,         \* the summary cache file on disk
    summary_cache,     \* StatementSummarizer._cache
    tf_orig,           \* the frame as the parser emitted it
    tf_df,             \* the frame the transformers are handed in turn
    tf_step,           \* the transformers that have run on tf_df
    entryPc,           \* position of the script add_debates_to_db.py
    record_call,       \* arguments of the latest get_mp_voting_record call
    record_result,     \* what that call returned
    sum_cfg,           \* the StatementSummarizer's include flags and token_threshold
    sum_field,         \* the field of FIELDS_TO_SUMMARIZE _transform_async has reached
    tasks,             \* the _process_text tasks of the batch being gathered
    api_calls,         \* the _summarize calls issued since the transform began
    sum_runs           \* processes that have run the summarizer so far

metaVars == <<metaInput, personTbl, membershipTbl, divisionTbl, voteTbl, policyTbl, metaRuns>>
summaryVars == <<cacheFile, summary_cache>>
taskVars == <<sum_cfg, sum_field, tasks, api_calls, sum_runs>>
tfVars == <<tf_orig, tf_df, tf_step, taskVars>>
VARIABLES
    calc_row,          \* the vote counts of a row of the policy calculations file
    stance             \* what load_mp_policy_summaries made of the row, or that it raised

stanceVars == <<calc_row, stance>>
votingVars == <<record_call, record_result, stanceVars>>
auxVars == <<metaVars, summaryVars, tfVars, entryPc, votingVars>>

vars == <<pipeVars, searchVars, loaderVars, auxVars>>

\* an empty dictionary
EmptyDict == [k \in {} |-> {}]

\* the metadata files hold nothing and the metadata tables are empty
MetaIdle ==
    /\ metaInput = [people |-> {}, memberships |-> {}, divisions |-> {}, votes |-> {},
                    policies |-> {}]
    /\ personTbl = {}
    /\ membershipTbl = {}
    /\ divisionTbl = {}
    /\ voteTbl = {}
    /\ policyTbl = {}
    /\ metaRuns = 0

\* no summary was cached and no frame is being transformed
\* no _process_text task exists
TaskIdle ==
    /\ sum_cfg = [inc |-> <<FALSE, TRUE, TRUE>>, threshold |-> 100]
    /\ sum_field = 0
    /\ tasks = <<>>
    /\ api_calls = {}
    /\ sum_runs = 0

TransformIdle ==
    /\ cacheFile = [kind |-> "absent"]
    /\ summary_cache = EmptyDict
    /\ tf_orig = <<>>
    /\ tf_df = <<>>
    /\ tf_step = "none"
    /\ TaskIdle

\* the ingestion script is not running
EntryIdle == entryPc = "idle"

\* get_mp_voting_record has not been called
VotingIdle ==
    /\ record_call = None
    /\ record_result = None
    /\ calc_row = None
    /\ stance = None

AuxIdle ==
    /\ MetaIdle
    /\ TransformIdle
    /\ EntryIdle
    /\ VotingIdle

\* context_columns
context_columns ==
    {"oral_heading", "major_heading", "minor_heading",
     "current_statement", "current_statement_id", "current_statement_speaker",
     "current_question", "current_question_id", "current_question_speaker",
     "current_context_question", "current_context_question_id",
     "current_context_question_speaker", "current_context_question_type"}

\* context = {col: None for col in context_columns}
EmptyContext == [col \in context_columns |-> None]

\* no document is being parsed
ParseIdle ==
    /\ elems = <<>>
    /\ context = EmptyContext
    /\ prevContext = EmptyContext
    /\ records = <<>>
    /\ parsed = [how |-> "traversing"]

\* no loader was constructed
ListingIdle ==
    /\ listing = <<>>
    /\ loader_files = None

\* no frame was handed to the chunking transformer
ChunkIdle ==
    /\ chunk_in = <<>>
    /\ chunk_cfg = [max_seq_length |-> 512, chunk_size |-> 400, overlap |-> 100]
    /\ chunk_out = None

Docs == 1..NumDocs

\* what a source file can hold: -1 for a file _parse_xml raises on, else the
\* number of its speeches: none, or a short speech followed by a long one
DocShapes == {-1, 0, 2}

(***************************************************************************)
(* Debates loader                                                          *)
(***************************************************************************)
\* self.files: the sorted file list; file d is the debate of date d
files == [d \in Docs |-> d]

\* The tokens of a speech and of the chunks the transforms cut it into:
\* the second speech of a document is the long one.
Terms == {"tax", "nhs"}
SpeechText(i) == IF i = 1 THEN {"tax"} ELSE Terms
ChunksOfSpeech(i) == IF i = 1 THEN << {"tax"} >> ELSE << {"tax"}, {"nhs"} >>

\* _parse_xml: one record per speech of the document, in document order
ParseXml(d) ==
    [i \in 1..docSpeeches[d] |->
        [xml_path |-> d, speech_id |-> <<d, i>>, date |-> d,
         person_id |-> Some(1 + ((d + i) % 2)), utterance |-> SpeechText(i)]]

RECURSIVE ConcatParsed(_)
\* the try/except loop of load_batch followed by pd.concat
ConcatParsed(fs) ==
    IF fs = <<>> THEN <<>>
    ELSE LET rest == ConcatParsed(Tail(fs))
         IN  IF docSpeeches[Head(fs)] = -1 THEN rest
             ELSE ParseXml(Head(fs)) \o rest

BatchFiles(bn, bs) ==
    SubSeq(files, bn * bs + 1, IF bn * bs + bs < Len(files) THEN bn * bs + bs ELSE Len(files))

load_batch(bn, bs) == ConcatParsed(BatchFiles(bn, bs))

XmlPaths(df) == {df[i].xml_path : i \in 1..Len(df)}

RECURSIVE FilterIsin(_, _)
\* batch_df[batch_df["xml_path"].isin(new_files)]
FilterIsin(df, fileSet) ==
    IF df = <<>> THEN <<>>
    ELSE IF Head(df).xml_path \in fileSet
         THEN <<Head(df)>> \o FilterIsin(Tail(df), fileSet)
         ELSE FilterIsin(Tail(df), fileSet)

(***************************************************************************)
(* Checkpoint file                                                         *)
(***************************************************************************)
AbsentFile == [kind |-> "absent", processed_files |-> {}]
MalformedFile == [kind |-> "malformed", processed_files |-> {}]
ObjectFile(s) == [kind |-> "object", processed_files |-> s]

\* a file that cannot be read, one that holds valid JSON other than an object, and an
\* object whose processed_files is not a list
UnreadableFile == [kind |-> "unreadable", processed_files |-> {}]
NotAnObjectFile == [kind |-> "not_object", processed_files |-> {}]
NotAListFile == [kind |-> "not_list", processed_files |-> {}]

\* _load_checkpoint catches json.JSONDecodeError and IOError only: data.get on a list, a
\* number, a string or null raises AttributeError, set() of a number raises TypeError
LoadCheckpointRaises(f) == f.kind \in {"not_object", "not_list"}

\* mutant: the checkpoint file is never read back
load_checkpoint_ignored(f) == {}

_load_checkpoint(f) == IF f.kind = "object" THEN f.processed_files ELSE {}

(***************************************************************************)
(* Transforms and embedding model                                          *)
(***************************************************************************)
RECURSIVE ExplodeRow(_, _, _)
\* the chunk rows of one utterance row, chunk_index counted from 0
ExplodeRow(row, chunks, k) ==
    IF k > Len(chunks) THEN <<>>
    ELSE << [xml_path |-> row.xml_path, speech_id |-> row.speech_id, date |-> row.date,
             person_id |-> row.person_id, utterance |-> row.utterance,
             chunk_index |-> k - 1, chunk_text |-> chunks[k],
             chunk_embedding_text |-> chunks[k]] >>
         \o ExplodeRow(row, chunks, k + 1)

RECURSIVE ApplyTransformers(_)
\* the transformer chain: one row per utterance in, one row per chunk out
ApplyTransformers(df) ==
    IF df = <<>> THEN <<>>
    ELSE ExplodeRow(Head(df), ChunksOfSpeech(Head(df).speech_id[2]), 1)
         \o ApplyTransformers(Tail(df))

\* embedding_model.encode: a deterministic text -> vector function
Encode(text) == << IF "tax" \in text THEN 1 ELSE 0, IF "nhs" \in text THEN 1 ELSE 0 >>

WithEmbeddings(df) ==
    [k \in 1..Len(df) |->
        [xml_path |-> df[k].xml_path, speech_id |-> df[k].speech_id, date |-> df[k].date,
         person_id |-> df[k].person_id, utterance |-> df[k].utterance,
         chunk_index |-> df[k].chunk_index, chunk_text |-> df[k].chunk_text,
         chunk_embedding_text |-> df[k].chunk_embedding_text,
         embedding |-> Encode(df[k].chunk_embedding_text)]]

(***************************************************************************)
(* UtteranceRepository                                                     *)
(***************************************************************************)
RECURSIVE DropDuplicates(_)
\* df.drop_duplicates(subset=["speech_id"]): the first row of every speech_id
DropDuplicates(df) ==
    IF df = <<>> THEN <<>>
    ELSE LET front == DropDuplicates(SubSeq(df, 1, Len(df) - 1))
             last == df[Len(df)]
         IN  IF \E j \in 1..Len(front) : front[j].speech_id = last.speech_id
             THEN front
             ELSE Append(front, last)

NewUtterances(df) ==
    LET utterance_df == DropDuplicates(df)
    IN  [k \in 1..Len(utterance_df) |->
            [id |-> Len(utteranceTbl) + k,
             xml_path |-> utterance_df[k].xml_path,
             speech_id |-> utterance_df[k].speech_id,
             date |-> utterance_df[k].date,
             person_id |-> utterance_df[k].person_id,
             party_at_time |-> None]]

\* utterance_map[speech_id].id
UtteranceMapId(df, speech_id) ==
    LET us == NewUtterances(df)
    IN  us[CHOOSE k \in 1..Len(us) : us[k].speech_id = speech_id].id

NewChunks(df) ==
    [k \in 1..Len(df) |->
        [id |-> Len(chunkTbl) + k,
         utterance_id |-> UtteranceMapId(df, df[k].speech_id),
         chunk_index |-> df[k].chunk_index,
         chunk_text |-> df[k].chunk_text]]

NewEmbeddings(df) ==
    [k \in 1..Len(df) |->
        [id |-> Len(embeddingTbl) + k,
         chunk_id |-> Len(chunkTbl) + k,
         embedding |-> df[k].embedding]]

\* mutant: the session is closed without commit
insert_without_commit(df) == UNCHANGED <<utteranceTbl, chunkTbl, embeddingTbl>>

\* insert_batch_with_chunks: one transaction, committed at the end
insert_batch_with_chunks(df) ==
    /\ utteranceTbl' = utteranceTbl \o NewUtterances(df)
    /\ chunkTbl' = chunkTbl \o NewChunks(df)
    /\ embeddingTbl' = embeddingTbl \o NewEmbeddings(df)

(***************************************************************************)
(* DebatePipeline                                                          *)
(***************************************************************************)
store == <<utteranceTbl, chunkTbl, embeddingTbl>>
config == <<batch_size, max_batches>>
counters == <<runs, crashes>>
runGhosts == <<ckptAtStart, rowsAtStart, handled, stored, completed, loads, skipped>>

RowCounts == <<Len(utteranceTbl), Len(chunkTbl), Len(embeddingTbl)>>
Ended(how) == [how |-> how, cfg |-> <<batch_size, max_batches>>]
Running == {"loop", "transform", "embed", "insert", "mark", "save"}

PipeInit ==
    /\ docSpeeches \in [Docs -> DocShapes]
    /\ checkpointFile = AbsentFile
    /\ utteranceTbl = <<>>
    /\ chunkTbl = <<>>
    /\ embeddingTbl = <<>>
    /\ pc = "idle"
    /\ batch_size = 1
    /\ max_batches = None
    /\ processed_files = {}
    /\ batch_number = 0
    /\ batches_processed = 0
    /\ loaded_df = <<>>
    /\ batch_df = <<>>
    /\ new_files = {}
    /\ failedAt = "none"
    /\ endedBy = [how |-> "none"]
    /\ prevEnd = [how |-> "none"]
    /\ runs = 0
    /\ crashes = 0
    /\ ckptAtStart = {}
    /\ rowsAtStart = <<0, 0, 0>>
    /\ handled = {}
    /\ stored = {}
    /\ completed = {}
    /\ loads = 0
    /\ skipped = 0
    /\ top_k = TopK
    /\ min_similarity = None
    /\ call = [mode |-> "none"]
    /\ result = <<>>
    /\ ParseIdle
    /\ ListingIdle
    /\ ChunkIdle
    /\ AuxIdle

\* what run keeps while it executes, before its first invocation
RunLocalsInit ==
    /\ batch_number' = 0
    /\ batches_processed' = 0
    /\ loaded_df' = <<>>
    /\ batch_df' = <<>>
    /\ new_files' = {}
    /\ failedAt' = "none"
    /\ ckptAtStart' = {}
    /\ rowsAtStart' = <<0, 0, 0>>
    /\ handled' = {}
    /\ stored' = {}
    /\ completed' = {}
    /\ loads' = 0
    /\ skipped' = 0

\* DebatePipeline.__init__ in a fresh process
Construct ==
    /\ pc \in {"idle", "done", "raised"}
    /\ runs < MaxRuns
    /\ \E bs \in 1..MaxBatchSize, mb \in {None} \cup {Some(m) : m \in 1..MaxMaxBatches} :
          /\ batch_size' = bs
          /\ max_batches' = mb
    /\ processed_files' = _load_checkpoint(checkpointFile)
    /\ pc' = "constructed"
    /\ RunLocalsInit
    /\ UNCHANGED <<searchVars, loaderVars, auxVars, docSpeeches, checkpointFile, store, endedBy, prevEnd,
                   counters>>

\* run is entered: on a new pipeline object, or again on one whose run returned
RunBegin ==
    /\ pc \in {"constructed", "done"}
    /\ runs < MaxRuns
    /\ pc' = "loop"
    /\ batches_processed' = 0
    /\ batch_number' = 0
    /\ runs' = runs + 1
    /\ prevEnd' = endedBy
    /\ failedAt' = "none"
    /\ ckptAtStart' = processed_files
    /\ rowsAtStart' = RowCounts
    /\ handled' = {}
    /\ stored' = {}
    /\ completed' = {}
    /\ loads' = 0
    /\ skipped' = 0
    /\ loaded_df' = <<>>
    /\ batch_df' = <<>>
    /\ new_files' = {}
    /\ UNCHANGED <<searchVars, loaderVars, auxVars, docSpeeches, checkpointFile, store, config, processed_files, endedBy,
                   crashes>>

\* load_batch was called on a non-empty slice of files
Loaded == IF BatchFiles(batch_number, batch_size) = <<>> THEN loads ELSE loads + 1

\* iter_batches: load_batch returned an empty DataFrame, the loop ends
IterExhausted ==
    /\ pc = "loop"
    /\ load_batch(batch_number, batch_size) = <<>>
    /\ pc' = "done"
    /\ loads' = Loaded
    /\ endedBy' = Ended("exhausted")
    /\ UNCHANGED <<searchVars, loaderVars, auxVars, docSpeeches, checkpointFile, store, config, processed_files,
                   batch_number, batches_processed, loaded_df, batch_df, new_files,
                   failedAt, prevEnd, counters, ckptAtStart, rowsAtStart, handled, stored,
                   completed, skipped>>

\* mutant: the test lets one more batch through
MaxBatchesExceeded == max_batches # None /\ batches_processed > Val(max_batches)

MaxBatchesReached == max_batches # None /\ batches_processed >= Val(max_batches)

\* a batch was yielded and the max_batches test breaks out of the loop
BreakAtMaxBatches ==
    /\ pc = "loop"
    /\ load_batch(batch_number, batch_size) # <<>>
    /\ MaxBatchesReached
    /\ pc' = "done"
    /\ loads' = Loaded
    /\ endedBy' = Ended("break")
    /\ UNCHANGED <<searchVars, loaderVars, auxVars, docSpeeches, checkpointFile, store, config, processed_files,
                   batch_number, batches_processed, loaded_df, batch_df, new_files,
                   failedAt, prevEnd, counters, ckptAtStart, rowsAtStart, handled, stored,
                   completed, skipped>>

\* a batch was yielded whose files are all in _processed_files
SkipBatch ==
    /\ pc = "loop"
    /\ LET df == load_batch(batch_number, batch_size)
       IN  /\ df # <<>>
           /\ ~MaxBatchesReached
           /\ XmlPaths(df) \subseteq processed_files
    /\ batch_number' = batch_number + 1
    /\ loads' = Loaded
    /\ skipped' = skipped + 1
    /\ UNCHANGED <<searchVars, loaderVars, auxVars, docSpeeches, checkpointFile, store, config, processed_files, pc,
                   batches_processed, loaded_df, batch_df, new_files, failedAt, endedBy,
                   prevEnd, counters, ckptAtStart, rowsAtStart, handled, stored,
                   completed>>

\* mutant: the batch is handed on unfiltered
FilterNothing(df) == df

\* batch_df filtered down to the files that are not in _processed_files
FilterNewFiles(df) == FilterIsin(df, XmlPaths(df) \ processed_files)

\* a batch was yielded with files that are not in _processed_files
TakeBatch ==
    /\ pc = "loop"
    /\ LET df == load_batch(batch_number, batch_size)
       IN  /\ df # <<>>
           /\ ~MaxBatchesReached
           /\ ~(XmlPaths(df) \subseteq processed_files)
           /\ loaded_df' = df
           /\ new_files' = XmlPaths(df) \ processed_files
           /\ batch_df' = FilterNewFiles(df)
           /\ IF FilterNewFiles(df) = <<>>
              THEN /\ pc' = "loop"
                   /\ batch_number' = batch_number + 1
                   /\ handled' = handled
              ELSE /\ pc' = "transform"
                   /\ batch_number' = batch_number
                   /\ handled' = handled \cup XmlPaths(FilterNewFiles(df))
    /\ loads' = Loaded
    /\ UNCHANGED <<searchVars, loaderVars, auxVars, docSpeeches, checkpointFile, store, config, processed_files,
                   batches_processed, failedAt, endedBy, prevEnd, counters, ckptAtStart,
                   rowsAtStart, stored, completed, skipped>>

\* every transformer returned
TransformOk ==
    /\ pc = "transform"
    /\ batch_df' = ApplyTransformers(batch_df)
    /\ pc' = "embed"
    /\ UNCHANGED <<searchVars, loaderVars, auxVars, docSpeeches, checkpointFile, store, config, processed_files,
                   batch_number, batches_processed, loaded_df, new_files, failedAt,
                   endedBy, prevEnd, counters, runGhosts>>

\* embedding_model.encode returned
EmbedOk ==
    /\ pc = "embed"
    /\ batch_df' = WithEmbeddings(batch_df)
    /\ pc' = "insert"
    /\ UNCHANGED <<searchVars, loaderVars, auxVars, docSpeeches, checkpointFile, store, config, processed_files,
                   batch_number, batches_processed, loaded_df, new_files, failedAt,
                   endedBy, prevEnd, counters, runGhosts>>

\* insert_batch_with_chunks committed
InsertOk ==
    /\ pc = "insert"
    /\ insert_batch_with_chunks(batch_df)
    /\ stored' = stored \cup XmlPaths(batch_df)
    /\ pc' = "mark"
    /\ UNCHANGED <<searchVars, loaderVars, auxVars, docSpeeches, checkpointFile, config, processed_files, batch_number,
                   batches_processed, loaded_df, batch_df, new_files, failedAt, endedBy,
                   prevEnd, counters, ckptAtStart, rowsAtStart, handled, completed, loads,
                   skipped>>

\* self._processed_files.update(new_files)
MarkProcessed ==
    /\ pc = "mark"
    /\ processed_files' = processed_files \cup new_files
    /\ pc' = "save"
    /\ UNCHANGED <<searchVars, loaderVars, auxVars, docSpeeches, checkpointFile, store, config, batch_number,
                   batches_processed, loaded_df, batch_df, new_files, failedAt, endedBy,
                   prevEnd, counters, runGhosts>>

\* _save_checkpoint wrote the file; the batch is complete
SaveOk ==
    /\ pc = "save"
    /\ checkpointFile' = ObjectFile(processed_files)
    /\ batches_processed' = batches_processed + 1
    /\ batch_number' = batch_number + 1
    /\ completed' = completed \cup new_files
    /\ pc' = "loop"
    /\ UNCHANGED <<searchVars, loaderVars, auxVars, docSpeeches, store, config, processed_files, loaded_df, batch_df,
                   new_files, failedAt, endedBy, prevEnd, counters, ckptAtStart,
                   rowsAtStart, handled, stored, loads, skipped>>

\* mutant: the except block marks the failed batch and saves the checkpoint
StepRaisesAndSaves ==
    /\ pc \in {"transform", "embed", "insert"}
    /\ failedAt' = pc
    /\ pc' = "raised"
    /\ endedBy' = [how |-> "raised"]
    /\ processed_files' = processed_files \cup new_files
    /\ checkpointFile' = ObjectFile(processed_files \cup new_files)
    /\ UNCHANGED <<searchVars, loaderVars, auxVars, docSpeeches, store, config, batch_number, batches_processed, loaded_df,
                   batch_df, new_files, prevEnd, counters, runGhosts>>

\* a transformer, encode or insert_batch_with_chunks raised: the except
\* block logs and re-raises; an insert that raised has committed nothing
StepRaises ==
    /\ pc \in {"transform", "embed", "insert"}
    /\ failedAt' = pc
    /\ pc' = "raised"
    /\ endedBy' = [how |-> "raised"]
    /\ UNCHANGED <<searchVars, loaderVars, auxVars, docSpeeches, checkpointFile, store, config, processed_files,
                   batch_number, batches_processed, loaded_df, batch_df, new_files,
                   prevEnd, counters, runGhosts>>

\* _save_checkpoint raised: the file is as it was, or was truncated
SaveRaises ==
    /\ pc = "save"
    /\ checkpointFile' \in {checkpointFile, MalformedFile}
    /\ failedAt' = "save"
    /\ pc' = "raised"
    /\ endedBy' = [how |-> "raised"]
    /\ UNCHANGED <<searchVars, loaderVars, auxVars, docSpeeches, store, config, processed_files, batch_number,
                   batches_processed, loaded_df, batch_df, new_files, prevEnd, counters,
                   runGhosts>>

\* the process dies inside run: memory is lost, disk and database stay; a
\* death inside write_text leaves the old file, a truncated one or the new one
Crash ==
    /\ pc \in Running
    /\ crashes < MaxCrashes
    /\ crashes' = crashes + 1
    /\ checkpointFile' \in IF pc = "save"
                           THEN {checkpointFile, MalformedFile, ObjectFile(processed_files)}
                           ELSE {checkpointFile}
    /\ pc' = "idle"
    /\ processed_files' = {}
    /\ RunLocalsInit
    /\ endedBy' = [how |-> "crashed"]
    /\ UNCHANGED <<searchVars, loaderVars, auxVars, docSpeeches, store, config, prevEnd, runs>>

PipeNext ==
    \/ Construct
    \/ RunBegin
    \/ IterExhausted
    \/ BreakAtMaxBatches
    \/ SkipBatch
    \/ TakeBatch
    \/ TransformOk
    \/ EmbedOk
    \/ InsertOk
    \/ MarkProcessed
    \/ SaveOk
    \/ StepRaises
    \/ SaveRaises
    \/ Crash

Init == PipeInit
Next == PipeNext
Spec == Init /\ [][Next]_vars

(***************************************************************************)
(* Ingestion pipeline: properties                                          *)
(***************************************************************************)
InRun == pc \in Running \cup {"done", "raised"}
OnDisk == _load_checkpoint(checkpointFile)
UtterancesOf(d) == {i \in 1..Len(utteranceTbl) : utteranceTbl[i].xml_path = d}
ChunksOf(u) == {i \in 1..Len(chunkTbl) : chunkTbl[i].utterance_id = utteranceTbl[u].id}
VectorsOf(c) == {i \in 1..Len(embeddingTbl) : embeddingTbl[i].chunk_id = chunkTbl[c].id}

\* the rows of document d are committed: every speech has an utterance row,
\* every utterance row has chunks and every chunk a vector
Persisted(d) ==
    /\ \A i \in 1..docSpeeches[d] :
          \E u \in UtterancesOf(d) : utteranceTbl[u].speech_id = <<d, i>>
    /\ UtterancesOf(d) # {}
    /\ \A u \in UtterancesOf(d) :
          /\ ChunksOf(u) # {}
          /\ \A c \in ChunksOf(u) : VectorsOf(c) # {}

\* C1: in every reachable state, crashes and exceptions included, every
\* document in the checkpoint file has its rows committed, and while a batch
\* is being worked on every batch stored earlier in the run is already in the
\* checkpoint file.
CheckpointedIsPersisted ==
    /\ \A d \in OnDisk : Persisted(d)
    /\ pc \in {"loop", "transform", "embed", "insert"} => stored \subseteq OnDisk

C1Witness ==
    /\ crashes > 0
    /\ pc = "idle"
    /\ OnDisk # {}
    /\ \E d \in Docs : Persisted(d) /\ d \notin OnDisk

\* C2 as claimed: a run that follows a run which returned, with the same
\* batch_size and max_batches, processes no document and leaves the row
\* counts unchanged.
SecondRunProcessesNothing ==
    (/\ InRun
     /\ runs >= 2
     /\ prevEnd.how \in {"exhausted", "break"}
     /\ prevEnd.cfg = <<batch_size, max_batches>>)
    => (handled = {} /\ stored = {} /\ RowCounts = rowsAtStart)

\* C2 amended: a run that follows a run which returned because the loader was
\* exhausted (not because max_batches stopped it), with the same batch_size
\* and max_batches, processes no document and leaves the row counts unchanged.
SecondRunAfterExhaustedProcessesNothing ==
    (/\ InRun
     /\ runs >= 2
     /\ prevEnd.how = "exhausted"
     /\ prevEnd.cfg = <<batch_size, max_batches>>)
    => (handled = {} /\ stored = {} /\ RowCounts = rowsAtStart)

C2Witness ==
    /\ pc = "done"
    /\ runs >= 2
    /\ prevEnd.how = "exhausted"
    /\ prevEnd.cfg = <<batch_size, max_batches>>
    /\ skipped > 0
    /\ RowCounts[1] > 0

\* C3: every source document's utterances are persisted exactly once: no
\* speech_id occurs in two utterance rows, whatever crash or failure and
\* re-invocation of run came before.
EachUtterancePersistedOnce ==
    \A i, j \in 1..Len(utteranceTbl) :
        utteranceTbl[i].speech_id = utteranceTbl[j].speech_id => i = j

\* C4: when a transform, the embedding call or the persistence call raised,
\* the checkpoint in memory and on disk holds what it held when run began plus
\* the documents of the batches completed before the failure and none of the
\* failed batch, no later batch was touched, and the run that follows takes up
\* the first documents that are not checkpointed.
RaiseKeepsCompletedBatchesOnly ==
    /\ (pc = "raised" /\ failedAt \in {"transform", "embed", "insert"}) =>
          /\ processed_files = ckptAtStart \cup completed
          /\ OnDisk = processed_files
          /\ new_files # {}
          /\ new_files \cap processed_files = {}
          /\ handled = completed \cup new_files
          /\ stored = completed
    /\ (pc = "transform" /\ prevEnd.how = "raised" /\ handled = new_files) =>
          /\ ckptAtStart = OnDisk
          /\ \A d \in new_files : d \notin ckptAtStart
          /\ \A d \in Docs :
                (docSpeeches[d] > 0 /\ \E e \in new_files : d < e /\ d \notin new_files)
                    => d \in ckptAtStart

C4Witness ==
    /\ pc = "raised"
    /\ failedAt = "insert"
    /\ completed # {}

\* C5: the rows handed to the first transform are exactly the loaded rows of
\* the documents that are not in the checkpoint, no document checkpointed when
\* run began is handed to a transform or stored again, and a batch whose
\* documents are all checkpointed changes neither.
CheckpointedDocumentsAreSkipped ==
    /\ [](/\ pc = "transform" =>
                /\ batch_df = FilterIsin(loaded_df, Docs \ processed_files)
                /\ XmlPaths(batch_df) = XmlPaths(loaded_df) \ processed_files
                /\ batch_df # <<>>
          /\ InRun => (handled \cap ckptAtStart = {} /\ stored \cap ckptAtStart = {}))
    /\ [][(/\ pc = "loop"
           /\ load_batch(batch_number, batch_size) # <<>>
           /\ XmlPaths(load_batch(batch_number, batch_size)) \subseteq processed_files)
          => (handled' = handled /\ stored' = stored /\ RowCounts' = RowCounts)]_vars

C5Witness ==
    /\ pc = "transform"
    /\ XmlPaths(loaded_df) \cap processed_files # {}

\* C6: load_batch returns the utterances of every document of the batch that
\* parses, and a document that fails to parse does not end the run: a run
\* that returns because the loader is exhausted has gone through every file,
\* so every document that parses is processed.
ParseFailureSkipsOneDocumentOnly ==
    /\ \A bs \in 1..MaxBatchSize, bn \in 0..NumDocs :
          XmlPaths(load_batch(bn, bs))
              = {BatchFiles(bn, bs)[k] : k \in 1..Len(BatchFiles(bn, bs))}
                    \cap {d \in Docs : docSpeeches[d] > 0}
    /\ (/\ pc = "done"
        /\ endedBy.how = "exhausted"
        /\ \A d \in Docs : docSpeeches[d] # 0)
       => \A d \in Docs : docSpeeches[d] > 0 => d \in processed_files

\* batches handed to the transforms in this invocation of run
BatchesTaken ==
    batches_processed
        + (IF pc \in {"transform", "embed", "insert", "mark", "save"} \/
              (pc = "raised" /\ failedAt # "none")
           THEN 1 ELSE 0)

\* C7 as claimed: with max_batches = m, one invocation of run loads documents
\* of at most m batches.
MaxBatchesBoundsLoading ==
    (InRun /\ max_batches # None) => loads <= Val(max_batches)

\* C7 amended: with max_batches = m, one invocation of run hands at most m
\* batches to the transforms and the store; the limit is tested after a batch
\* is loaded, so run loads the skipped batches, the m processed ones and at
\* most one more.
MaxBatchesBoundsProcessing ==
    (InRun /\ max_batches # None) =>
        /\ BatchesTaken <= Val(max_batches)
        /\ loads <= skipped + Val(max_batches) + 1

C7Witness ==
    /\ pc = "done"
    /\ endedBy.how = "break"
    /\ skipped > 0
    /\ batches_processed = Val(max_batches)
    /\ loads = skipped + Val(max_batches) + 1

(***************************************************************************)
(* HansardRetrievalTool                                                    *)
(***************************************************************************)
\* func.lower / str.lower on the party names that occur
Lower(str) ==
    CASE str = "Labour" -> "labour"
      [] str = "LABOUR" -> "labour"
      [] str = "Green" -> "green"
      [] OTHER -> str

\* pgvector's <#>: the negative inner product
NegInnerProduct(a, b) == 0 - (a[1] * b[1] + a[2] * b[2])

\* pg_textsearch's <@>: a negative rank, lower for a better match
Bm25Score(text, query) == 0 - Cardinality(text \cap query)

SetMin(S) == CHOOSE m \in S : \A n \in S : m <= n

\* FROM utterance_chunk JOIN embedding ON embedding.chunk_id = utterance_chunk.id,
\* scored by embedding <#> query_embedding
VectorScored(query_embedding) ==
    {[utterance_id |-> chunkTbl[c].utterance_id, chunk |-> c, vector |-> e,
      score |-> NegInnerProduct(embeddingTbl[e].embedding, query_embedding)] :
        <<c, e>> \in {p \in (1..Len(chunkTbl)) \X (1..Len(embeddingTbl)) :
                        embeddingTbl[p[2]].chunk_id = chunkTbl[p[1]].id}}

\* FROM utterance_chunk, scored by chunk_text <@> to_bm25query(query)
Bm25Scored(query) ==
    {[utterance_id |-> chunkTbl[c].utterance_id, chunk |-> c, vector |-> 0,
      score |-> Bm25Score(chunkTbl[c].chunk_text, query)] : c \in 1..Len(chunkTbl)}

\* mutant: the subquery is not grouped, one row per scored chunk
UngroupedChunks(scored) ==
    {[utterance_id |-> r.utterance_id, best_score |-> r.score] : r \in scored}

\* the subquery: GROUP BY utterance_id, min(score_expr) AS best_score
BestChunks(scored) ==
    {[utterance_id |-> u,
      best_score |-> SetMin({r.score : r \in {x \in scored : x.utterance_id = u}})] :
        u \in {r.utterance_id : r \in scored}}

\* the conditions list: a filter that is None or falsy adds no condition
Conditions(utt, party, person_id, date_from, date_to) ==
    /\ (party # None /\ Val(party) # "") =>
          (utt.party_at_time # None /\ Lower(Val(utt.party_at_time)) = Lower(Val(party)))
    /\ (person_id # None /\ Val(person_id) # 0) =>
          (utt.person_id # None /\ Val(utt.person_id) = Val(person_id))
    /\ date_from # None => utt.date >= Val(date_from)
    /\ date_to # None => utt.date <= Val(date_to)

\* WHERE best_score <= min_score, when min_score is given
MinScoreCondition(best_score, min_score) ==
    min_score # None => best_score <= Val(min_score)

\* the lists that hold every row of the set once
Arrangements(rows) ==
    {f \in [1..Cardinality(rows) -> rows] :
        \A i, j \in 1..Cardinality(rows) : f[i] = f[j] => i = j}

\* mutant: LIMIT without ORDER BY
LimitOnly(rows, k) ==
    {SubSeq(f, 1, IF Len(f) < k THEN Len(f) ELSE k) : f \in Arrangements(rows)}

\* ORDER BY best_score LIMIT top_k: rows of equal score come in any order
OrderByLimit(rows, k) ==
    {SubSeq(f, 1, IF Len(f) < k THEN Len(f) ELSE k) :
        f \in {g \in Arrangements(rows) :
                 \A i \in 1..(Len(g) - 1) : g[i].best_score <= g[i + 1].best_score}}

\* _chunk_search: the lists of Utterance objects the statement can return
_chunk_search(scored, party, person_id, date_from, date_to, min_score) ==
    LET joined == {[utt |-> utteranceTbl[u], best_score |-> b.best_score] :
                      <<u, b>> \in {p \in (1..Len(utteranceTbl)) \X BestChunks(scored) :
                                      p[2].utterance_id = utteranceTbl[p[1]].id}}
        kept == {r \in joined :
                    /\ Conditions(r.utt, party, person_id, date_from, date_to)
                    /\ MinScoreCondition(r.best_score, min_score)}
    IN  {[i \in 1..Len(f) |-> f[i].utt] : f \in OrderByLimit(kept, top_k)}

\* mutant: min_similarity or self.min_similarity
EffectiveMinSimByTruth(per_call) ==
    IF per_call # None /\ Val(per_call) # 0 THEN per_call ELSE min_similarity

\* effective_min_sim of _vector_search
EffectiveMinSim(per_call) == IF per_call # None THEN per_call ELSE min_similarity

_vector_search(query_embedding, party, person_id, date_from, date_to, per_call) ==
    _chunk_search(VectorScored(query_embedding), party, person_id, date_from, date_to,
                  IF EffectiveMinSim(per_call) # None
                  THEN Some(0 - Val(EffectiveMinSim(per_call)))
                  ELSE None)

_bm25_search(query, party, person_id, date_from, date_to) ==
    _chunk_search(Bm25Scored(query), party, person_id, date_from, date_to, None)

\* the stored data the searches run on
Vecs == {<<1, 0>>, <<0, 1>>, <<-1, 0>>}
PartyOf(i) == CASE i % 3 = 1 -> Some("Labour") [] i % 3 = 2 -> None [] OTHER -> Some("labour")
ChunkTextOf(i) == CASE i % 3 = 1 -> {"tax"} [] i % 3 = 2 -> {"nhs"} [] OTHER -> Terms

StoredUtterances ==
    [i \in 1..NumUtterances |->
        [id |-> i, xml_path |-> i, speech_id |-> <<i, 1>>, date |-> i,
         person_id |-> Some(1 + (i % 2)), party_at_time |-> PartyOf(i)]]

\* chunk ids follow the order of their utterances, as inserts allot them
StoredChunks ==
    {[c \in 1..NumChunks |->
        [id |-> c, utterance_id |-> owner[c], chunk_index |-> 0,
         chunk_text |-> ChunkTextOf(c)]] :
        owner \in {o \in [1..NumChunks -> 1..NumUtterances] :
                     \A c \in 1..(NumChunks - 1) : o[c] <= o[c + 1]}}

\* one vector per chunk, and possibly a second vector for the first chunk
StoredEmbeddings ==
    LET first == {[c \in 1..NumChunks |-> [id |-> c, chunk_id |-> c, embedding |-> v[c]]] :
                     v \in [1..NumChunks -> Vecs]}
    IN  first \cup {Append(f, [id |-> NumChunks + 1, chunk_id |-> 1, embedding |-> w]) :
                       f \in first, w \in Vecs}

\* the stored vectors range over Vecs, so one query vector meets every score
VectorQueries == {{"tax"}}
Queries == {{"tax"}, {"nhs"}}
PartyFilters == {None, Some("LABOUR")}
PersonFilters == {None, Some(1)}
DateFilters == {None, Some(2)}
SimilarityFilters == {None, Some(0), Some(1)}
DefaultSimilarities == {None, Some(1)}

pipeCtl == <<docSpeeches, checkpointFile, pc, batch_size, max_batches, processed_files,
             batch_number, batches_processed, loaded_df, batch_df, new_files, failedAt,
             endedBy, prevEnd, runs, crashes, ckptAtStart, rowsAtStart, handled, stored,
             completed, loads, skipped>>

SearchInit ==
    /\ docSpeeches = [d \in Docs |-> 0]
    /\ checkpointFile = AbsentFile
    /\ utteranceTbl = StoredUtterances
    /\ chunkTbl \in StoredChunks
    /\ embeddingTbl \in StoredEmbeddings
    /\ pc = "idle"
    /\ batch_size = 1
    /\ max_batches = None
    /\ processed_files = {}
    /\ batch_number = 0
    /\ batches_processed = 0
    /\ loaded_df = <<>>
    /\ batch_df = <<>>
    /\ new_files = {}
    /\ failedAt = "none"
    /\ endedBy = [how |-> "none"]
    /\ prevEnd = [how |-> "none"]
    /\ runs = 0
    /\ crashes = 0
    /\ ckptAtStart = {}
    /\ rowsAtStart = <<0, 0, 0>>
    /\ handled = {}
    /\ stored = {}
    /\ completed = {}
    /\ loads = 0
    /\ skipped = 0
    /\ top_k \in 1..TopK
    /\ min_similarity \in DefaultSimilarities
    /\ call = [mode |-> "none"]
    /\ result = <<>>
    /\ ParseIdle
    /\ ListingIdle
    /\ ChunkIdle
    /\ AuxIdle

\* fetch: embed the query, then _vector_search
Fetch ==
    \E query \in VectorQueries, party \in PartyFilters, person_id \in PersonFilters,
       date_from \in DateFilters, date_to \in DateFilters, per_call \in SimilarityFilters :
        /\ call.mode = "none"
        /\ result' \in _vector_search(Encode(query), party, person_id, date_from, date_to,
                                      per_call)
        /\ call' = [mode |-> "vector", query |-> query, party |-> party,
                    person_id |-> person_id, date_from |-> date_from, date_to |-> date_to,
                    min_similarity |-> per_call]
        /\ UNCHANGED <<pipeCtl, loaderVars, auxVars, store, top_k, min_similarity>>

\* fetch_bm25: _bm25_search
FetchBm25 ==
    \E query \in Queries, party \in PartyFilters, person_id \in PersonFilters,
       date_from \in DateFilters, date_to \in DateFilters :
        /\ call.mode = "none"
        /\ result' \in _bm25_search(query, party, person_id, date_from, date_to)
        /\ call' = [mode |-> "bm25", query |-> query, party |-> party,
                    person_id |-> person_id, date_from |-> date_from, date_to |-> date_to,
                    min_similarity |-> None]
        /\ UNCHANGED <<pipeCtl, loaderVars, auxVars, store, top_k, min_similarity>>

\* the formatted list is handed to the caller; the tool keeps nothing
Return ==
    /\ call.mode # "none"
    /\ call' = [mode |-> "none"]
    /\ result' = <<>>
    /\ UNCHANGED <<pipeCtl, loaderVars, auxVars, store, top_k, min_similarity>>

SearchNext ==
    \/ Fetch
    \/ FetchBm25
    \/ Return

SearchSpec == SearchInit /\ [][SearchNext]_vars

(***************************************************************************)
(* Retrieval: properties                                                   *)
(***************************************************************************)
Called == call.mode # "none"

\* the scores of the chunks of utterance row u under the latest call, read
\* from the tables
ScoresOf(u) ==
    IF call.mode = "vector"
    THEN {NegInnerProduct(embeddingTbl[e].embedding, Encode(call.query)) :
            e \in {x \in 1..Len(embeddingTbl) :
                     \E c \in 1..Len(chunkTbl) :
                        /\ chunkTbl[c].utterance_id = u.id
                        /\ embeddingTbl[x].chunk_id = chunkTbl[c].id}}
    ELSE {Bm25Score(chunkTbl[c].chunk_text, call.query) :
            c \in {x \in 1..Len(chunkTbl) : chunkTbl[x].utterance_id = u.id}}

BestScore(u) == SetMin(ScoresOf(u))

\* the cutoff of the latest call: the per-call value, else the instance default
Cutoff == IF call.min_similarity # None THEN call.min_similarity ELSE min_similarity

PassesFilters(u) ==
    /\ call.party # None =>
          (u.party_at_time # None /\ Lower(Val(u.party_at_time)) = Lower(Val(call.party)))
    /\ call.person_id # None => u.person_id = call.person_id
    /\ call.date_from # None => u.date >= Val(call.date_from)
    /\ call.date_to # None => u.date <= Val(call.date_to)

\* the parents the reference computation keeps
Qualifying ==
    {u \in {utteranceTbl[i] : i \in 1..Len(utteranceTbl)} :
        /\ ScoresOf(u) # {}
        /\ PassesFilters(u)
        /\ (call.mode = "vector" /\ Cutoff # None) => BestScore(u) <= 0 - Val(Cutoff)}

Returned == {result[i] : i \in 1..Len(result)}

\* C8: the returned list holds every parent utterance id at most once.
ParentIdsUnique ==
    Called => \A i, j \in 1..Len(result) : result[i].id = result[j].id => i = j

C8Witness ==
    /\ call.mode = "vector"
    /\ top_k > 1
    /\ \E i \in 1..Len(result) :
          /\ Cardinality({c \in 1..Len(chunkTbl) : chunkTbl[c].utterance_id = result[i].id}) >= 2
          /\ Cardinality(ScoresOf(result[i])) >= 2
          /\ \E c \in 1..Len(chunkTbl) :
                /\ chunkTbl[c].utterance_id = result[i].id
                /\ Cardinality({e \in 1..Len(embeddingTbl) :
                                  embeddingTbl[e].chunk_id = chunkTbl[c].id}) >= 2

\* C9: the returned list is the reference computation: min(top_k, number of
\* qualifying parents) distinct qualifying parents, in ascending order of
\* their minimum chunk score, and no qualifying parent that was left out has
\* a better score than a returned one.
ResultIsReference ==
    Called =>
        /\ Len(result) = IF Cardinality(Qualifying) < top_k
                         THEN Cardinality(Qualifying) ELSE top_k
        /\ Returned \subseteq Qualifying
        /\ Cardinality(Returned) = Len(result)
        /\ \A i \in 1..(Len(result) - 1) : BestScore(result[i]) <= BestScore(result[i + 1])
        /\ \A u \in Qualifying \ Returned :
              \A i \in 1..Len(result) : BestScore(result[i]) <= BestScore(u)

\* the list is full, and the parent that the filters or the cutoff reject
\* scores better than the returned one
C9Witness ==
    /\ Called
    /\ Len(result) = top_k
    /\ Cardinality(Qualifying) = top_k
    /\ \E i \in 1..Len(utteranceTbl) :
          /\ ScoresOf(utteranceTbl[i]) # {}
          /\ utteranceTbl[i] \notin Qualifying
          /\ BestScore(utteranceTbl[i]) < BestScore(result[1])

\* C10: in vector mode with effective min_similarity s, every returned
\* parent has best distance <= -s, s = 0 included; with no per-call value and
\* no instance default no cutoff is applied.
MinSimilarityIsRespected ==
    (Called /\ call.mode = "vector") =>
        /\ Cutoff # None =>
              \A i \in 1..Len(result) : BestScore(result[i]) <= 0 - Val(Cutoff)
        /\ Cutoff = None =>
              Len(result) =
                 LET n == Cardinality({u \in {utteranceTbl[i] : i \in 1..Len(utteranceTbl)} :
                                         ScoresOf(u) # {} /\ PassesFilters(u)})
                 IN  IF n < top_k THEN n ELSE top_k

C10Witness ==
    /\ call.mode = "vector"
    /\ call.min_similarity = Some(0)
    /\ min_similarity = Some(1)
    /\ Len(result) > 0
    /\ \E i \in 1..Len(result) : BestScore(result[i]) = 0
    /\ \E u \in {utteranceTbl[i] : i \in 1..Len(utteranceTbl)} :
          /\ ScoresOf(u) # {}
          /\ PassesFilters(u)
          /\ BestScore(u) > 0

\* no DebatePipeline object exists and the retrieval tool was not called
PipelineNotStarted ==
    /\ docSpeeches = [d \in Docs |-> 0]
    /\ pc = "idle"
    /\ batch_size = 1
    /\ max_batches = None
    /\ processed_files = {}
    /\ batch_number = 0
    /\ batches_processed = 0
    /\ loaded_df = <<>>
    /\ batch_df = <<>>
    /\ new_files = {}
    /\ failedAt = "none"
    /\ endedBy = [how |-> "none"]
    /\ prevEnd = [how |-> "none"]
    /\ runs = 0
    /\ crashes = 0
    /\ ckptAtStart = {}
    /\ rowsAtStart = <<0, 0, 0>>
    /\ handled = {}
    /\ stored = {}
    /\ completed = {}
    /\ loads = 0
    /\ skipped = 0
    /\ top_k = TopK
    /\ min_similarity = None
    /\ call = [mode |-> "none"]
    /\ result = <<>>

(***************************************************************************)
(* Debates._parse_xml, element by element                                  *)
(***************************************************************************)
\* the ingestion process and the retrieval tool are not running
PipelineIdle ==
    /\ checkpointFile = AbsentFile
    /\ utteranceTbl = <<>>
    /\ chunkTbl = <<>>
    /\ embeddingTbl = <<>>
    /\ PipelineNotStarted

\* A string is the sequence of its pieces: words and runs of whitespace for
\* a heading, words for a type attribute, characters for a person_id.
Whitespace == {" ", "\n"}
IsWord(t) == t \notin Whitespace

\* _normalize_whitespace: None for None and for "", else the words of the
\* text joined by single spaces
_normalize_whitespace(text) ==
    IF text = None \/ Val(text) = <<>> THEN None
    ELSE Some(SelectSeq(Val(text), IsWord))

\* the heading elements of the documents: one of every tag with a text, and
\* a minor-heading without text
HeadingTags == {"oral-heading", "major-heading", "minor-heading"}
HeadingElems ==
    {[tag |-> t, text |-> Some(<<"\n", "Health", " ", "Care", "\n">>)] : t \in HeadingTags}
    \cup {[tag |-> "minor-heading", text |-> None]}
HeadingTexts(tag) == {h.text : h \in {e \in HeadingElems : e.tag = tag}}

\* the values of the type attribute; <<>> is elem.get("type", "") of a
\* speech without the attribute
StartStatement == <<"Start", "Statement">>
StartQuestion == <<"Start", "Question">>
StartSupplementaryQuestion == <<"Start", "SupplementaryQuestion">>
StartIntervention == <<"Start", "Intervention">>
ContinuationSpeech == <<"Continuation", "Speech">>
StartAnswer == <<"Start", "Answer">>
SpeechTypes ==
    {StartStatement, StartQuestion, StartSupplementaryQuestion, StartIntervention,
     ContinuationSpeech, StartAnswer, <<>>}

\* mutant: the test looks for "Question"
ContainsQuestion(speech_type) ==
    \E i \in 1..Len(speech_type) : speech_type[i] = "Question"

\* "Answer" in speech_type
ContainsAnswer(speech_type) == \E i \in 1..Len(speech_type) : speech_type[i] = "Answer"

\* the person_id attributes of the documents
GoodPersonId == Some(<<"p", "/", "1", "2">>)
BadPersonId == Some(<<"p", "/", "x">>)

\* the speech elements of the documents: one speech of every type, and the
\* speeches without paragraphs, without speaker and with an odd person_id
SpeechElems ==
    {[type |-> t, person_id |-> GoodPersonId, nospeaker |-> None, paragraphs |-> <<"para">>] :
        t \in SpeechTypes}
    \cup {[type |-> StartQuestion, person_id |-> GoodPersonId, nospeaker |-> None,
           paragraphs |-> <<>>],
          [type |-> StartStatement, person_id |-> None, nospeaker |-> Some("true"),
           paragraphs |-> <<"para">>],
          [type |-> StartAnswer, person_id |-> None, nospeaker |-> None,
           paragraphs |-> <<"para">>],
          [type |-> StartAnswer, person_id |-> BadPersonId, nospeaker |-> None,
           paragraphs |-> <<"para">>]}

\* mutant: the headings reset the statement only
reset_statement_only(ctx) ==
    [ctx EXCEPT !["current_statement"] = None,
                !["current_statement_id"] = None,
                !["current_statement_speaker"] = None]

\* reset_all_context
reset_all_context(ctx) ==
    [ctx EXCEPT !["current_statement"] = None,
                !["current_statement_id"] = None,
                !["current_statement_speaker"] = None,
                !["current_question"] = None,
                !["current_question_id"] = None,
                !["current_question_speaker"] = None,
                !["current_context_question"] = None,
                !["current_context_question_id"] = None,
                !["current_context_question_speaker"] = None,
                !["current_context_question_type"] = None]

\* loaders/utils.py: s.split("/")[-1]
RECURSIVE LastSegment(_)
LastSegment(s) ==
    IF s = <<>> \/ s[Len(s)] = "/" THEN <<>>
    ELSE Append(LastSegment(SubSeq(s, 1, Len(s) - 1)), s[Len(s)])

Digit == <<"0", "1", "2", "3", "4", "5", "6", "7", "8", "9">>
IsDigit(c) == \E i \in 1..Len(Digit) : Digit[i] = c
DigitValue(c) == (CHOOSE i \in 1..Len(Digit) : Digit[i] = c) - 1

\* int(segment) raises ValueError
IntRaises(seg) == seg = <<>> \/ \E i \in 1..Len(seg) : ~IsDigit(seg[i])

RECURSIVE IntOf(_)
\* int(segment) of a string of digits
IntOf(seg) ==
    IF seg = <<>> THEN 0
    ELSE 10 * IntOf(SubSeq(seg, 1, Len(seg) - 1)) + DigitValue(seg[Len(seg)])

\* extract_person_id raises
ExtractRaises(s) == s # None /\ IntRaises(LastSegment(Val(s)))

\* extract_person_id, when it returns
extract_person_id(s) ==
    IF s = None THEN None ELSE Some(IntOf(LastSegment(Val(s))))

\* an element may follow: the document has more elements
MoreElements == parsed.how = "traversing" /\ Len(elems) < MaxElems

notParse == <<pipeVars, searchVars, listingVars, chunkVars, auxVars>>

\* elem.tag == "oral-heading"
OralHeading ==
    \E text \in HeadingTexts("oral-heading") :
        /\ MoreElements
        /\ elems' = Append(elems, [tag |-> "oral-heading", text |-> text])
        /\ prevContext' = context
        /\ context' = reset_all_context(
                          [context EXCEPT !["oral_heading"] = _normalize_whitespace(text),
                                          !["major_heading"] = None,
                                          !["minor_heading"] = None])
        /\ UNCHANGED <<records, parsed, notParse>>

\* elem.tag == "major-heading"
MajorHeading ==
    \E text \in HeadingTexts("major-heading") :
        /\ MoreElements
        /\ elems' = Append(elems, [tag |-> "major-heading", text |-> text])
        /\ prevContext' = context
        /\ context' = reset_all_context(
                          [context EXCEPT !["major_heading"] = _normalize_whitespace(text),
                                          !["minor_heading"] = None])
        /\ UNCHANGED <<records, parsed, notParse>>

\* elem.tag == "minor-heading"
MinorHeading ==
    \E text \in HeadingTexts("minor-heading") :
        /\ MoreElements
        /\ elems' = Append(elems, [tag |-> "minor-heading", text |-> text])
        /\ prevContext' = context
        /\ context' = reset_all_context(
                          [context EXCEPT !["minor_heading"] = _normalize_whitespace(text)])
        /\ UNCHANGED <<records, parsed, notParse>>

\* an element of any other tag: no branch of the loop takes it
OtherElement ==
    /\ MoreElements
    /\ elems' = Append(elems, [tag |-> "division"])
    /\ prevContext' = context
    /\ UNCHANGED <<context, records, parsed, notParse>>

\* the classification of a speech by its type attribute
is_statement(speech_type) == speech_type = StartStatement
is_main_question(speech_type) == speech_type = StartQuestion
is_supplementary_question(speech_type) == speech_type = StartSupplementaryQuestion
is_intervention(speech_type) == speech_type = StartIntervention
is_question(speech_type) ==
    is_main_question(speech_type) \/ is_supplementary_question(speech_type)
        \/ is_intervention(speech_type)
\* mutant: every continuation is an answer
is_continuation(speech_type, ctx) == speech_type = ContinuationSpeech

is_continuation_after_intervention(speech_type, ctx) ==
    /\ speech_type = ContinuationSpeech
    /\ ctx["current_context_question_type"] = Some("intervention")
is_answer(speech_type, ctx) ==
    ContainsAnswer(speech_type) \/ is_continuation_after_intervention(speech_type, ctx)

\* speech_text = " ".join(paragraphs)
speech_text(elem) == elem.paragraphs

\* mutant: a new statement keeps the question context
StatementUpdateKeepingQuestions(ctx, elem) ==
    [ctx EXCEPT !["current_statement"] = Some(speech_text(elem)),
                !["current_statement_id"] = elem.id,
                !["current_statement_speaker"] = elem.speakername]

\* "New statement: update statement and reset all question context"
StatementUpdate(ctx, elem) ==
    [ctx EXCEPT !["current_statement"] = Some(speech_text(elem)),
                !["current_statement_id"] = elem.id,
                !["current_statement_speaker"] = elem.speakername,
                !["current_question"] = None,
                !["current_question_id"] = None,
                !["current_question_speaker"] = None,
                !["current_context_question"] = None,
                !["current_context_question_id"] = None,
                !["current_context_question_speaker"] = None,
                !["current_context_question_type"] = None]

\* mutant: a new main question keeps the context question
MainQuestionUpdateKeepingContext(ctx, elem) ==
    [ctx EXCEPT !["current_question"] = Some(speech_text(elem)),
                !["current_question_id"] = elem.id,
                !["current_question_speaker"] = elem.speakername]

\* "New main question: update main question and reset context question"
MainQuestionUpdate(ctx, elem) ==
    [ctx EXCEPT !["current_question"] = Some(speech_text(elem)),
                !["current_question_id"] = elem.id,
                !["current_question_speaker"] = elem.speakername,
                !["current_context_question"] = None,
                !["current_context_question_id"] = None,
                !["current_context_question_speaker"] = None,
                !["current_context_question_type"] = None]

\* mutant: a supplementary question takes the place of the main question
SupplementaryUpdateClearingMain(ctx, elem) ==
    [ctx EXCEPT !["current_question"] = None,
                !["current_question_id"] = None,
                !["current_question_speaker"] = None,
                !["current_context_question"] = Some(speech_text(elem)),
                !["current_context_question_id"] = elem.id,
                !["current_context_question_speaker"] = elem.speakername,
                !["current_context_question_type"] = Some("supplementary")]

\* "Supplementary question: update context question, keep main question"
SupplementaryUpdate(ctx, elem) ==
    [ctx EXCEPT !["current_context_question"] = Some(speech_text(elem)),
                !["current_context_question_id"] = elem.id,
                !["current_context_question_speaker"] = elem.speakername,
                !["current_context_question_type"] = Some("supplementary")]

\* "Intervention: update context question, keep main question"
InterventionUpdate(ctx, elem) ==
    [ctx EXCEPT !["current_context_question"] = Some(speech_text(elem)),
                !["current_context_question_id"] = elem.id,
                !["current_context_question_speaker"] = elem.speakername,
                !["current_context_question_type"] = Some("intervention")]

\* mutant: a speech without a speaker leaves the context alone
UpdateContextOfSpeakers(ctx, elem) ==
    IF elem.nospeaker = Some("true") THEN ctx
    ELSE IF is_statement(elem.type) THEN StatementUpdate(ctx, elem)
    ELSE IF is_main_question(elem.type) THEN MainQuestionUpdate(ctx, elem)
    ELSE IF is_supplementary_question(elem.type) THEN SupplementaryUpdate(ctx, elem)
    ELSE IF is_intervention(elem.type) THEN InterventionUpdate(ctx, elem)
    ELSE ctx

\* "Update context based on speech type"
UpdateContext(ctx, elem) ==
    IF is_statement(elem.type) THEN StatementUpdate(ctx, elem)
    ELSE IF is_main_question(elem.type) THEN MainQuestionUpdate(ctx, elem)
    ELSE IF is_supplementary_question(elem.type) THEN SupplementaryUpdate(ctx, elem)
    ELSE IF is_intervention(elem.type) THEN InterventionUpdate(ctx, elem)
    ELSE ctx

\* the record of a speech: before is the context when the speech is met,
\* after the context once the speech has updated it
Record(elem, before, after) ==
    [speech_id |-> elem.id,
     speakername |-> elem.speakername,
     person_id |-> elem.person_id,
     type |-> elem.type,
     nospeaker |-> elem.nospeaker,
     is_statement |-> is_statement(elem.type),
     is_question |-> is_question(elem.type),
     is_main_question |-> is_main_question(elem.type),
     is_supplementary_question |-> is_supplementary_question(elem.type),
     is_intervention |-> is_intervention(elem.type),
     is_answer |-> is_answer(elem.type, before),
     statement_text |-> after["current_statement"],
     statement_id |-> after["current_statement_id"],
     statement_speaker |-> after["current_statement_speaker"],
     question_text |-> after["current_question"],
     question_id |-> after["current_question_id"],
     question_speaker |-> after["current_question_speaker"],
     context_question_text |-> after["current_context_question"],
     context_question_id |-> after["current_context_question_id"],
     context_question_speaker |-> after["current_context_question_speaker"],
     context_question_type |-> after["current_context_question_type"],
     original_statement_text |-> after["current_statement"],
     original_question_text |-> after["current_question"],
     original_context_question_text |-> after["current_context_question"],
     oral_heading |-> after["oral_heading"],
     major_heading |-> after["major_heading"],
     minor_heading |-> after["minor_heading"],
     utterance |-> speech_text(elem),
     original_utterance |-> speech_text(elem),
     num_paragraphs |-> Len(elem.paragraphs)]

\* mutant: the records hold the context dictionary itself, not its values
append_by_reference(recs, record, ctx) ==
    Append([i \in 1..Len(recs) |->
               [recs[i] EXCEPT !.statement_text = ctx["current_statement"],
                               !.question_text = ctx["current_question"],
                               !.context_question_text = ctx["current_context_question"],
                               !.oral_heading = ctx["oral_heading"],
                               !.major_heading = ctx["major_heading"],
                               !.minor_heading = ctx["minor_heading"]]],
           record)

\* records.append(record): the record holds the values the context had, which are
\* strings and None
records_append(recs, record, ctx) == Append(recs, record)

\* elem.tag == "speech"
Speech ==
    \E sp \in SpeechElems :
        LET elem == [tag |-> "speech", id |-> Some(Len(elems) + 1), speakername |-> Some("mp"),
                     type |-> sp.type, person_id |-> sp.person_id,
                     nospeaker |-> sp.nospeaker, paragraphs |-> sp.paragraphs]
        IN  /\ MoreElements
            /\ elems' = Append(elems, elem)
            /\ prevContext' = context
            /\ context' = UpdateContext(context, elem)
            /\ records' = records_append(records, Record(elem, context, context'), context')
            /\ UNCHANGED <<parsed, notParse>>

\* df[df["nospeaker"] != "true"]
HasSpeaker(r) == r.nospeaker # Some("true")

\* the end of the traversal: no record, or the records with a speaker
ParseReturn ==
    LET df == SelectSeq(records, HasSpeaker)
    IN  /\ parsed.how = "traversing"
        /\ \A i \in 1..Len(df) : ~ExtractRaises(df[i].person_id)
        /\ parsed' = [how |-> "returned",
                      df |-> [i \in 1..Len(df) |->
                                 [df[i] EXCEPT !.person_id = extract_person_id(@)]]]
        /\ UNCHANGED <<elems, context, prevContext, records, notParse>>

\* the end of the traversal: extract_person_id raises on a row
ParseRaises ==
    LET df == SelectSeq(records, HasSpeaker)
    IN  /\ parsed.how = "traversing"
        /\ \E i \in 1..Len(df) : ExtractRaises(df[i].person_id)
        /\ parsed' = [how |-> "raised", error |-> "ValueError"]
        /\ UNCHANGED <<elems, context, prevContext, records, notParse>>

ParseInit ==
    /\ PipelineIdle
    /\ AuxIdle
    /\ ParseIdle
    /\ ListingIdle
    /\ ChunkIdle

ParseNext ==
    \/ OralHeading
    \/ MajorHeading
    \/ MinorHeading
    \/ OtherElement
    \/ Speech
    \/ ParseReturn
    \/ ParseRaises

ParseSpec == ParseInit /\ [][ParseNext]_vars

(***************************************************************************)
(* Properties of the parser                                                *)
(***************************************************************************)
LastElem == elems[Len(elems)]

StatementColumns ==
    {"current_statement", "current_statement_id", "current_statement_speaker"}
MainQuestionColumns ==
    {"current_question", "current_question_id", "current_question_speaker"}
ContextQuestionColumns ==
    {"current_context_question", "current_context_question_id",
     "current_context_question_speaker", "current_context_question_type"}
SpeechColumns == StatementColumns \cup MainQuestionColumns \cup ContextQuestionColumns

AllNull(ctx, cols) == \A col \in cols : ctx[col] = None
Same(cols) == \A col \in cols : context[col] = prevContext[col]

\* C11: a heading element sets its own level and resets everything finer.
\* After an oral-heading the major and minor headings and every statement
\* and question field are null; after a major-heading the minor heading and
\* every statement and question field are null and the oral heading is
\* unchanged; after a minor-heading every statement and question field is
\* null and the oral and major headings are unchanged.
HeadingResetsFiner ==
    elems # <<>> =>
        /\ LastElem.tag = "oral-heading" =>
              /\ context["oral_heading"] = _normalize_whitespace(LastElem.text)
              /\ AllNull(context, {"major_heading", "minor_heading"} \cup SpeechColumns)
        /\ LastElem.tag = "major-heading" =>
              /\ context["major_heading"] = _normalize_whitespace(LastElem.text)
              /\ AllNull(context, {"minor_heading"} \cup SpeechColumns)
              /\ Same({"oral_heading"})
        /\ LastElem.tag = "minor-heading" =>
              /\ context["minor_heading"] = _normalize_whitespace(LastElem.text)
              /\ AllNull(context, SpeechColumns)
              /\ Same({"oral_heading", "major_heading"})

\* a major-heading met below an oral heading, with a statement and a
\* question in the frame
C11Witness ==
    /\ elems # <<>>
    /\ LastElem.tag = "major-heading"
    /\ LastElem.text # None
    /\ prevContext["oral_heading"] # None
    /\ prevContext["current_statement"] # None
    /\ prevContext["current_question"] # None

QuestionFieldsNull(r) ==
    /\ r.question_text = None
    /\ r.question_id = None
    /\ r.question_speaker = None
    /\ r.context_question_text = None
    /\ r.context_question_id = None
    /\ r.context_question_speaker = None
    /\ r.context_question_type = None

\* the place in the document of the speech a record was emitted for
Pos(r) == Val(r.speech_id)

IsHeading(e) == e.tag \in HeadingTags
IsSpeechOf(e, type) == e.tag = "speech" /\ e.type = type

\* C12: the record of every Start Statement speech has every field of the
\* main question and of the context question null; so has the record of a
\* statement that comes right after a minor-heading.
StatementRecordHasNoQuestion ==
    \A i \in 1..Len(records) :
        /\ records[i].is_statement => QuestionFieldsNull(records[i])
        /\ (/\ Pos(records[i]) > 1
            /\ elems[Pos(records[i]) - 1].tag = "minor-heading"
            /\ records[i].type = StartStatement) => QuestionFieldsNull(records[i])

\* a statement met while a main question and a context question are in
\* the frame
C12Witness ==
    /\ elems # <<>>
    /\ IsSpeechOf(LastElem, StartStatement)
    /\ prevContext["current_question"] # None
    /\ prevContext["current_context_question"] # None
    /\ records[Len(records)].is_statement

\* C13: a main question sets the main-question slot, clears the
\* context-question slot and leaves the statement slot; a supplementary
\* question or an intervention sets the context-question slot and leaves
\* the main-question and statement slots; a speech of any other type but
\* Start Statement leaves the whole frame as it was.
SpeechUpdatesItsSlotOnly ==
    (elems # <<>> /\ LastElem.tag = "speech") =>
        LET e == LastElem
        IN  /\ Same({"oral_heading", "major_heading", "minor_heading"})
            /\ is_main_question(e.type) =>
                  /\ context["current_question"] = Some(e.paragraphs)
                  /\ context["current_question_id"] = e.id
                  /\ context["current_question_speaker"] = e.speakername
                  /\ AllNull(context, ContextQuestionColumns)
                  /\ Same(StatementColumns)
            /\ (is_supplementary_question(e.type) \/ is_intervention(e.type)) =>
                  /\ context["current_context_question"] = Some(e.paragraphs)
                  /\ context["current_context_question_id"] = e.id
                  /\ context["current_context_question_speaker"] = e.speakername
                  /\ context["current_context_question_type"] =
                         IF is_intervention(e.type) THEN Some("intervention")
                         ELSE Some("supplementary")
                  /\ Same(MainQuestionColumns \cup StatementColumns)
            /\ (~is_statement(e.type) /\ ~is_question(e.type)) => context = prevContext

\* a main question met while a statement and a context question are in the
\* frame
C13Witness ==
    /\ elems # <<>>
    /\ IsSpeechOf(LastElem, StartQuestion)
    /\ prevContext["current_statement"] # None
    /\ prevContext["current_context_question"] # None

\* the speech at place p comes after a main question at j and a
\* supplementary question at k, in that order
AfterMainThenSupplementary(j, k, p) ==
    /\ j < k
    /\ k < p
    /\ IsSpeechOf(elems[j], StartQuestion)
    /\ IsSpeechOf(elems[k], StartSupplementaryQuestion)

NoneBetween(lo, hi, Test(_)) == \A m \in (lo + 1)..(hi - 1) : ~Test(elems[m])
IsStatementSpeech(e) == IsSpeechOf(e, StartStatement)
IsMainQuestionSpeech(e) == IsSpeechOf(e, StartQuestion)

\* C14 as stated: an answer that comes after a supplementary question and,
\* before it, a main question, with no heading in between, carries a text
\* in the main-question slot and in the context-question slot.
AnswerCarriesBothQuestions ==
    \A i \in 1..Len(records) :
        (/\ records[i].is_answer
         /\ \E j, k \in 1..Len(elems) :
               /\ AfterMainThenSupplementary(j, k, Pos(records[i]))
               /\ NoneBetween(j, Pos(records[i]), IsHeading))
        => /\ records[i].question_text # None
           /\ records[i].context_question_text # None

\* C14: an answer that comes after a supplementary question and, before it,
\* a main question, with no heading and no Start Statement after the main
\* question and no further main question after the supplementary one,
\* carries a text in the main-question slot and in the context-question
\* slot.
AnswerCarriesBothQuestionsUnlessReset ==
    \A i \in 1..Len(records) :
        (/\ records[i].is_answer
         /\ \E j, k \in 1..Len(elems) :
               /\ AfterMainThenSupplementary(j, k, Pos(records[i]))
               /\ NoneBetween(j, Pos(records[i]), IsHeading)
               /\ NoneBetween(j, Pos(records[i]), IsStatementSpeech)
               /\ NoneBetween(k, Pos(records[i]), IsMainQuestionSpeech))
        => /\ records[i].question_text # None
           /\ records[i].context_question_text # None

\* an answer to a supplementary question, with an intervention after the
\* supplementary question
C14Witness ==
    \E i \in 1..Len(records) :
        /\ records[i].is_answer
        /\ Pos(records[i]) = 4
        /\ AfterMainThenSupplementary(1, 2, 4)
        /\ IsSpeechOf(elems[3], StartIntervention)
        /\ records[i].question_text # None
        /\ records[i].context_question_text # None

\* the element before place p, the elements of other tags set aside
IsSpoken(e) == e.tag = "speech" \/ IsHeading(e)
RightAfterIntervention(p) ==
    \E j \in 1..(p - 1) :
        /\ IsSpeechOf(elems[j], StartIntervention)
        /\ NoneBetween(j, p, IsSpoken)

\* the elements that replace or clear an intervention in the frame
ClearsIntervention(e) ==
    \/ IsHeading(e)
    \/ IsSpeechOf(e, StartStatement)
    \/ IsSpeechOf(e, StartQuestion)
    \/ IsSpeechOf(e, StartSupplementaryQuestion)
InterventionInForce(p) ==
    \E j \in 1..(p - 1) :
        /\ IsSpeechOf(elems[j], StartIntervention)
        /\ NoneBetween(j, p, ClearsIntervention)

\* C15 as stated: a Continuation Speech right after an intervention is
\* emitted with is_answer true, and a Continuation Speech is an answer in
\* that position only.
ContinuationAnswersRightAfterInterventionOnly ==
    \A i \in 1..Len(records) :
        records[i].type = ContinuationSpeech =>
            (records[i].is_answer <=> RightAfterIntervention(Pos(records[i])))

\* C15: a Continuation Speech is emitted with is_answer true exactly when an
\* intervention came before it with no heading, Start Statement, Start
\* Question or Start SupplementaryQuestion since; the Continuation Speech
\* right after an intervention is such a speech.
ContinuationAnswersWhileInterventionInForce ==
    \A i \in 1..Len(records) :
        records[i].type = ContinuationSpeech =>
            /\ records[i].is_answer <=> InterventionInForce(Pos(records[i]))
            /\ RightAfterIntervention(Pos(records[i])) => records[i].is_answer

\* a Continuation Speech right after an intervention, and a second one
\* after an answer that followed the intervention
C15Witness ==
    /\ Len(elems) = 4
    /\ IsSpeechOf(elems[1], StartIntervention)
    /\ IsSpeechOf(elems[2], ContinuationSpeech)
    /\ IsSpeechOf(elems[3], StartAnswer)
    /\ IsSpeechOf(elems[4], ContinuationSpeech)
    /\ records[2].is_answer
    /\ records[4].is_answer

Count(b) == IF b THEN 1 ELSE 0

\* C16: in every emitted record at most one of is_statement,
\* is_main_question, is_supplementary_question and is_intervention is true,
\* is_question is the disjunction of the three question flags, and a
\* record with is_answer true is neither a statement nor a question.
OnePrimaryType ==
    \A i \in 1..Len(records) :
        LET r == records[i]
        IN  /\ Count(r.is_statement) + Count(r.is_main_question)
                   + Count(r.is_supplementary_question) + Count(r.is_intervention) <= 1
            /\ r.is_question <=>
                   (r.is_main_question \/ r.is_supplementary_question \/ r.is_intervention)
            /\ r.is_answer => (~r.is_statement /\ ~r.is_question)

\* a document with a statement, a question and both kinds of answer
C16Witness ==
    /\ Len(records) = 4
    /\ records[1].is_statement
    /\ records[2].is_intervention
    /\ records[3].is_answer /\ records[3].type = ContinuationSpeech
    /\ records[4].is_answer /\ records[4].type = StartAnswer

\* C17 as stated: the person id of a record is the integer value of the last
\* path segment of the person_id attribute, null when the attribute is
\* absent or the segment is no integer, and the parse of the document does
\* not fail on it.
PersonIdNullWhenAbsentOrUnparsable ==
    /\ parsed.how # "raised"
    /\ parsed.how = "returned" =>
          \A i \in 1..Len(parsed.df) :
              LET attr == elems[Pos(parsed.df[i])].person_id
              IN  parsed.df[i].person_id =
                      IF attr = None \/ IntRaises(LastSegment(Val(attr))) THEN None
                      ELSE Some(IntOf(LastSegment(Val(attr))))

(***************************************************************************)
(* Debates.__init__: the selection of the source files                     *)
(***************************************************************************)
\* A file name of the directory is debates<date><suffix>.xml: its date, and
\* its version letter or "" when it has none.
Letters == <<"a", "b">>
Suffixes == {""} \cup {Letters[i] : i \in 1..Len(Letters)}
Dates == 1..NumDates
FileNames == [date : Dates, suffix : Suffixes]

\* _extract_date(f)
_extract_date(f) == f.date

\* match.group(1) if match and match.group(1) else ""
SuffixOf(f) == f.suffix

\* the place of a suffix in the order of strings: "" is below every letter
Rank(suffix) ==
    IF suffix = "" THEN 0 ELSE CHOOSE i \in 1..Len(Letters) : Letters[i] = suffix

\* mutant: the lower suffix wins
SuffixLower(suffix, current_suffix) == Rank(suffix) < Rank(current_suffix)

\* suffix > current_suffix
SuffixGreater(suffix, current_suffix) == Rank(suffix) > Rank(current_suffix)

RECURSIVE DateToBest(_, _)
\* the loop over files: date_to_best, in the order its keys were inserted
DateToBest(fs, date_to_best) ==
    IF fs = <<>> THEN date_to_best
    ELSE LET f == Head(fs)
             date == _extract_date(f)
             suffix == SuffixOf(f)
             known == {i \in 1..Len(date_to_best) : date_to_best[i].date = date}
         IN  IF known = {}
             THEN DateToBest(Tail(fs),
                             Append(date_to_best, [date |-> date, suffix |-> suffix, f |-> f]))
             ELSE LET i == CHOOSE i \in known : TRUE
                  IN  IF SuffixGreater(suffix, date_to_best[i].suffix)
                      THEN DateToBest(Tail(fs),
                                      [date_to_best EXCEPT ![i] =
                                          [date |-> date, suffix |-> suffix, f |-> f]])
                      ELSE DateToBest(Tail(fs), date_to_best)

\* _filter_latest_versions
_filter_latest_versions(fs) ==
    LET date_to_best == DateToBest(fs, <<>>)
    IN  [i \in 1..Len(date_to_best) |-> date_to_best[i].f]

\* the order of the file names as strings: by date, then "." before a letter
NameBefore(f, g) ==
    \/ f.date < g.date
    \/ f.date = g.date /\ Rank(f.suffix) < Rank(g.suffix)

RECURSIVE SortedNames(_)
\* sorted(self.files), of a set of names
SortedNames(S) ==
    IF S = {} THEN <<>>
    ELSE LET first == CHOOSE f \in S : \A g \in S \ {f} : NameBefore(f, g)
         IN  <<first>> \o SortedNames(S \ {first})

Range(s) == {s[i] : i \in 1..Len(s)}

\* the directory listings: names are distinct, in any order
Listings ==
    {l \in UNION {[1..n -> FileNames] : n \in 0..MaxFiles} :
        \A i, j \in 1..Len(l) : i # j => l[i] # l[j]}

StartDates == {None} \cup {Some(d) : d \in Dates}

notListing == <<pipeVars, searchVars, parseVars, chunkVars, auxVars>>

\* Debates.__init__
DebatesInit ==
    \E start_date \in StartDates :
        LET latest == _filter_latest_versions(listing)
            kept == IF start_date = None THEN Range(latest)
                    ELSE {f \in Range(latest) : _extract_date(f) >= Val(start_date)}
        IN  /\ loader_files = None
            /\ loader_files' = Some(SortedNames(kept))
            /\ UNCHANGED <<listing, notListing>>

\* the loader object is dropped
DebatesDropped ==
    /\ loader_files # None
    /\ loader_files' = None
    /\ UNCHANGED <<listing, notListing>>

ListingInit ==
    /\ PipelineIdle
    /\ AuxIdle
    /\ ParseIdle
    /\ ChunkIdle
    /\ listing \in Listings
    /\ loader_files = None

ListingNext ==
    \/ DebatesInit
    \/ DebatesDropped

ListingSpec == ListingInit /\ [][ListingNext]_vars

\* the lettered versions of a date in the listing
Lettered(d) == {f \in Range(listing) : f.date = d /\ f.suffix # ""}
Latest == Range(_filter_latest_versions(listing))
SameFiles(l) == Range(l) = Range(listing)

\* C18 as stated: a file name without version letter is kept by
\* _filter_latest_versions, whatever the other names of the listing are.
VersionlessAlwaysKept ==
    loader_files # None =>
        \A f \in Range(listing) : f.suffix = "" => f \in Latest

\* C19: of the lettered versions of a date that has several,
\* _filter_latest_versions keeps one only, that of the highest letter, in
\* whatever order the names are listed.
HighestLetterKept ==
    loader_files # None =>
        \A d \in Dates :
            Cardinality(Lettered(d)) > 1 =>
                /\ \E f \in Lettered(d) :
                      /\ Latest \cap Lettered(d) = {f}
                      /\ \A g \in Lettered(d) : Rank(g.suffix) <= Rank(f.suffix)
                /\ \A l \in Listings :
                      SameFiles(l) => Range(_filter_latest_versions(l)) = Latest

\* two lettered versions of a date, the higher one listed first, and a
\* loader built from the listing
C19Witness ==
    /\ loader_files # None
    /\ Len(listing) = 3
    /\ listing[1].date = listing[2].date
    /\ listing[1].suffix = "b"
    /\ listing[2].suffix = "a"
    /\ listing[3].date # listing[1].date
    /\ Len(Val(loader_files)) = 2

(***************************************************************************)
(* ChunkingTransformer                                                     *)
(***************************************************************************)
\* A text is the sequence of its sentences, each with its place in the
\* utterance and its token count, followed by a context block of a number
\* of tokens (0: no block).  The first sentence of a formatted utterance
\* carries the speaker prefix.
Text(body, ctx) == [body |-> body, context |-> ctx]
EmptyText == Text(<<>>, 0)

\* the "- 10  # buffer" of transform
Buffer == 10
\* the tokens add_special_tokens=True adds to a text
SpecialTokens == 2

SentenceTokens == {4, 6}
ContextTokens == {0, 3, 8}
Bodies ==
    UNION {{[i \in 1..n |-> [k |-> i, tokens |-> toks[i], speaker |-> FALSE]] :
               toks \in [1..n -> SentenceTokens]} : n \in 0..MaxSentences}

RECURSIVE SumTokens(_)
SumTokens(body) ==
    IF body = <<>> THEN 0 ELSE body[1].tokens + SumTokens(Tail(body))

\* ChunkingTransformer._count_tokens: no special tokens
_count_tokens(text) == SumTokens(text.body) + text.context

\* EmbeddingFormatter._count_tokens: with the special tokens
FormatterCountTokens(text) ==
    IF text = EmptyText THEN 0 ELSE _count_tokens(text) + SpecialTokens

\* len(text): five characters a token, one space between sentences
StrLen(text) ==
    IF text.body = <<>> THEN 0
    ELSE 5 * SumTokens(text.body) + (Len(text.body) - 1)

\* EmbeddingFormatter._format_utterance: "speaker: text", then the block
_format_utterance(original, ctx) ==
    Text([i \in 1..Len(original.body) |->
             IF i = 1 THEN [original.body[i] EXCEPT !.tokens = @ + 1, !.speaker = TRUE]
             ELSE original.body[i]],
         ctx)

\* a row as EmbeddingFormatter.transform leaves it
FormattedRow(body, ctx) ==
    LET original == Text(body, 0)
        utterance == _format_utterance(original, ctx)
    IN  [original_utterance |-> original,
         utterance |-> utterance,
         token_count |-> FormatterCountTokens(utterance)]

Rows == {FormattedRow(body, ctx) : body \in Bodies, ctx \in ContextTokens}

\* _split_context: <<context, content>>
_split_context(formatted_text) ==
    IF formatted_text.context > 0
    THEN <<Text(<<>>, formatted_text.context), Text(formatted_text.body, 0)>>
    ELSE <<EmptyText, formatted_text>>

\* _split_sentences
_split_sentences(text) == text.body

\* _format_chunk_embedding
_format_chunk_embedding(chunk_text, ctx) ==
    IF ctx # EmptyText THEN Text(chunk_text.body, ctx.context) ELSE chunk_text

RECURSIVE OverlapSentences(_, _, _, _)
\* mutant: the overlap is the last sentence at most
OverlapOfOneSentence(current_sentences, overlap_sentences, overlap_tokens, overlap) ==
    IF current_sentences # <<>>
          /\ current_sentences[Len(current_sentences)].tokens <= overlap
    THEN <<current_sentences[Len(current_sentences)]>>
    ELSE <<>>

\* "Keep overlap": the loop over reversed(current_sentences)
OverlapSentences(current_sentences, overlap_sentences, overlap_tokens, overlap) ==
    IF current_sentences = <<>> THEN overlap_sentences
    ELSE LET s == current_sentences[Len(current_sentences)]
             s_tokens == _count_tokens(Text(<<s>>, 0))
         IN  IF overlap_tokens + s_tokens <= overlap
             THEN OverlapSentences(SubSeq(current_sentences, 1, Len(current_sentences) - 1),
                                   <<s>> \o overlap_sentences, overlap_tokens + s_tokens,
                                   overlap)
             ELSE overlap_sentences

RECURSIVE ChunkLoop(_, _, _, _, _)
\* the loop over sentences of _create_chunks, and the final chunk
ChunkLoop(sentences, chunks, current_sentences, effective_chunk_size, overlap) ==
    IF sentences = <<>>
    THEN IF current_sentences # <<>> THEN Append(chunks, current_sentences) ELSE chunks
    ELSE LET sentence == Head(sentences)
             sentence_tokens == _count_tokens(Text(<<sentence>>, 0))
             current_tokens == SumTokens(current_sentences)
         IN  IF current_tokens + sentence_tokens > effective_chunk_size
                    /\ current_sentences # <<>>
             THEN ChunkLoop(Tail(sentences), Append(chunks, current_sentences),
                            Append(OverlapSentences(current_sentences, <<>>, 0, overlap),
                                   sentence),
                            effective_chunk_size, overlap)
             ELSE ChunkLoop(Tail(sentences), chunks, Append(current_sentences, sentence),
                            effective_chunk_size, overlap)

\* mutant: every chunk starts where the text starts
StartCharZero(i, num_chunks, total_len) == 0

\* _calculate_char_offsets
StartChar(i, num_chunks, total_len) ==
    IF num_chunks > 1 THEN (i * total_len) \div num_chunks ELSE 0
EndChar(i, num_chunks, total_len) ==
    IF i < num_chunks - 1 THEN ((i + 1) * total_len) \div num_chunks ELSE total_len

\* mutant: the sentences left when the loop ends are not made a chunk
chunks_without_final(content, original_text, effective_chunk_size, overlap) ==
    LET sentences == _split_sentences(content)
    IN  IF sentences = <<>>
        THEN <<[text |-> content, start_char |-> 0, end_char |-> StrLen(original_text)]>>
        ELSE LET all == ChunkLoop(sentences, <<>>, <<>>, effective_chunk_size, overlap)
                 chunks == IF Len(all) > 1 THEN SubSeq(all, 1, Len(all) - 1) ELSE all
             IN  [i \in 1..Len(chunks) |->
                     [text |-> Text(chunks[i], 0),
                      start_char |-> StartChar(i - 1, Len(chunks), StrLen(original_text)),
                      end_char |-> EndChar(i - 1, Len(chunks), StrLen(original_text))]]

\* _create_chunks
_create_chunks(content, original_text, effective_chunk_size, overlap) ==
    LET sentences == _split_sentences(content)
    IN  IF sentences = <<>>
        THEN <<[text |-> content, start_char |-> 0, end_char |-> StrLen(original_text)]>>
        ELSE LET chunks == ChunkLoop(sentences, <<>>, <<>>, effective_chunk_size, overlap)
             IN  [i \in 1..Len(chunks) |->
                     [text |-> Text(chunks[i], 0),
                      start_char |-> StartChar(i - 1, Len(chunks), StrLen(original_text)),
                      end_char |-> EndChar(i - 1, Len(chunks), StrLen(original_text))]]

\* mutant: an utterance of exactly max_seq_length tokens is split
BelowMaxSeqLength(token_count, max_seq_length) == token_count < max_seq_length

\* token_count <= self.max_seq_length
WithinMaxSeqLength(token_count, max_seq_length) == token_count <= max_seq_length

\* mutant: the larger of the chunk size and the room left
Max(a, b) == IF a > b THEN a ELSE b

\* min(self.chunk_size, available_for_content)
Min(a, b) == IF a < b THEN a ELSE b

\* the chunk rows of one row of the frame
ChunkRows(row, cfg) ==
    LET utterance == row.utterance
        original_text == row.original_utterance
        context_content == _split_context(utterance)
        ctx == context_content[1]
        content == context_content[2]
    IN  IF WithinMaxSeqLength(row.token_count, cfg.max_seq_length)
        THEN <<[original_utterance |-> row.original_utterance,
                utterance |-> row.utterance,
                token_count |-> row.token_count,
                chunk_index |-> 0,
                chunk_text |-> original_text,
                chunk_embedding_text |-> utterance,
                chunk_start_char |-> 0,
                chunk_end_char |-> StrLen(original_text)]>>
        ELSE LET context_tokens == _count_tokens(ctx)
                 available_for_content == cfg.max_seq_length - context_tokens - Buffer
                 effective_chunk_size == Min(cfg.chunk_size, available_for_content)
                 chunks == _create_chunks(content, original_text, effective_chunk_size,
                                          cfg.overlap)
             IN  [i \in 1..Len(chunks) |->
                     [original_utterance |-> row.original_utterance,
                      utterance |-> row.utterance,
                      token_count |-> row.token_count,
                      chunk_index |-> i - 1,
                      chunk_text |-> chunks[i].text,
                      chunk_embedding_text |-> _format_chunk_embedding(chunks[i].text, ctx),
                      chunk_start_char |-> chunks[i].start_char,
                      chunk_end_char |-> chunks[i].end_char]]

RECURSIVE transform(_, _)
\* ChunkingTransformer.transform
transform(df, cfg) ==
    IF df = <<>> THEN <<>> ELSE ChunkRows(Head(df), cfg) \o transform(Tail(df), cfg)

\* the settings of the transformers
MaxSeqLengths == {13, 22}
ChunkSizes == {8, 12}
Overlaps == {0, 5, 10}
ChunkConfigs ==
    [max_seq_length : MaxSeqLengths, chunk_size : ChunkSizes, overlap : Overlaps]

Frames == UNION {[1..n -> Rows] : n \in 0..MaxRows}

notChunk == <<pipeVars, searchVars, parseVars, listingVars, auxVars>>

\* pipeline step: ChunkingTransformer.transform(df)
Transform ==
    /\ chunk_out = None
    /\ chunk_out' = Some(transform(chunk_in, chunk_cfg))
    /\ UNCHANGED <<chunk_in, chunk_cfg, notChunk>>

\* the pipeline takes the frame of chunks
TakeChunks ==
    /\ chunk_out # None
    /\ chunk_out' = None
    /\ UNCHANGED <<chunk_in, chunk_cfg, notChunk>>

ChunkInit ==
    /\ PipelineIdle
    /\ AuxIdle
    /\ ParseIdle
    /\ ListingIdle
    /\ chunk_in \in Frames
    /\ chunk_cfg \in ChunkConfigs
    /\ chunk_out = None

ChunkNext ==
    \/ Transform
    \/ TakeChunks

ChunkSpec == ChunkInit /\ [][ChunkNext]_vars

\* the chunk rows of the row at place i of the input frame
ChunksOfRow(i) ==
    SelectSeq(Val(chunk_out), LAMBDA c : c.original_utterance = chunk_in[i].original_utterance
                                         /\ c.utterance = chunk_in[i].utterance)

\* C20: an utterance whose token count is within max_seq_length yields one
\* chunk only, with chunk_index 0, start_char 0, end_char the length of the
\* original text, the original text as chunk text and the whole formatted
\* utterance as embedding text.
ShortUtteranceIsOneChunk ==
    chunk_out # None =>
        \A i \in 1..Len(chunk_in) :
            chunk_in[i].token_count <= chunk_cfg.max_seq_length =>
                /\ Len(ChunksOfRow(i)) = Cardinality({j \in 1..Len(chunk_in) :
                                                         chunk_in[j] = chunk_in[i]})
                /\ \A j \in 1..Len(ChunksOfRow(i)) :
                      LET c == ChunksOfRow(i)[j]
                      IN  /\ c.chunk_index = 0
                          /\ c.chunk_start_char = 0
                          /\ c.chunk_end_char = StrLen(chunk_in[i].original_utterance)
                          /\ c.chunk_text = chunk_in[i].original_utterance
                          /\ c.chunk_embedding_text = chunk_in[i].utterance

\* an utterance of several sentences and a context block with exactly
\* max_seq_length tokens, transformed
C20Witness ==
    /\ chunk_out # None
    /\ Len(chunk_in) = 1
    /\ chunk_in[1].token_count = chunk_cfg.max_seq_length
    /\ Len(chunk_in[1].original_utterance.body) > 1
    /\ chunk_in[1].utterance.context > 0
    /\ Len(Val(chunk_out)) = 1

\* the rows of the input frame that occur once in it
Single(i) == \A j \in 1..Len(chunk_in) : chunk_in[j] = chunk_in[i] => j = i

IsLong(i) == chunk_in[i].token_count > chunk_cfg.max_seq_length

OffsetsPartitionText ==
    chunk_out # None =>
        \A i \in 1..Len(chunk_in) :
            Single(i) =>
                LET cs == ChunksOfRow(i)
                    n == Len(cs)
                    L == StrLen(chunk_in[i].original_utterance)
                IN  /\ n >= 1
                    /\ cs[1].chunk_start_char = 0
                    /\ cs[n].chunk_end_char = L
                    /\ \A j \in 1..n :
                          /\ cs[j].chunk_index = j - 1
                          /\ cs[j].chunk_start_char <= cs[j].chunk_end_char
                          /\ j < n => /\ cs[j].chunk_end_char = (j * L) \div n
                                      /\ cs[j].chunk_end_char = cs[j + 1].chunk_start_char

\* three chunks of a text whose length is no multiple of three
C22Witness ==
    /\ chunk_out # None
    /\ Len(chunk_in) = 1
    /\ Len(Val(chunk_out)) = 3
    /\ StrLen(chunk_in[1].original_utterance) % 3 # 0

(***************************************************************************)
(* chatbot/tools.py: get_mp_voting_record over table mp_policy_summary     *)
(***************************************************************************)

\* the largest limit a call passes
MaxLimit == 2

PolicyNone == None
Tax == <<"T", "a", "x">>
Tea == <<"t", "e", "a">>
EU == <<"E", "U">>

\* rows of mp_policy_summary: name, period_id and mp_policy_alignment_score are nullable
PolicyRows ==
    { [id |-> 1, person_id |-> 1, name |-> Some(Tax), period_id |-> Some(1), score |-> Some(90), same |-> 9, different |-> 1],
      [id |-> 2, person_id |-> 1, name |-> Some(Tax), period_id |-> Some(2), score |-> Some(20), same |-> 2, different |-> 8],
      [id |-> 3, person_id |-> 1, name |-> Some(Tea), period_id |-> Some(2), score |-> Some(80), same |-> 4, different |-> 1],
      [id |-> 4, person_id |-> 1, name |-> Some(EU), period_id |-> Some(2), score |-> Some(50), same |-> 5, different |-> 5],
      [id |-> 5, person_id |-> 1, name |-> Some(EU), period_id |-> Some(2), score |-> Some(50), same |-> 1, different |-> 1],
      [id |-> 6, person_id |-> 1, name |-> Some(Tea), period_id |-> None, score |-> Some(99), same |-> 9, different |-> 0],
      [id |-> 7, person_id |-> 2, name |-> Some(Tax), period_id |-> Some(3), score |-> Some(10), same |-> 1, different |-> 9],
      [id |-> 8, person_id |-> 1, name |-> PolicyNone, period_id |-> Some(3), score |-> None, same |-> 0, different |-> 0],
      [id |-> 9, person_id |-> 1, name |-> Some(EU), period_id |-> Some(3), score |-> None, same |-> 0, different |-> 0] }

PersonIds == {1, 2}
SearchTerms == { <<"t">>, <<"E">>, <<"t", "A">>, <<"_", "a">>, <<"z">> }

\* lower-casing of the letters that occur
LowerCase(c) ==
    CASE c = "A" -> "a"
      [] c = "E" -> "e"
      [] c = "T" -> "t"
      [] c = "U" -> "u"
      [] c = "X" -> "x"
      [] OTHER -> c

\* name ILIKE '%term%': the term matches somewhere in the name, letters compared without
\* case, "_" in the term standing for any one character; NULL names never match
ILike(name, term) ==
    /\ name # None
    /\ \E i \in 0..(Len(Val(name)) - Len(term)) :
          \A j \in 1..Len(term) :
             \/ term[j] = "_"
             \/ LowerCase(term[j]) = LowerCase(Val(name)[i + j])

\* the filter both queries share
Filtered(tbl, person_id, search_term) ==
    { r \in tbl : r.person_id = person_id /\ ILike(r.name, search_term) }

SetMax(S) == CHOOSE m \in S : \A x \in S : x <= m

\* latest_period_id: max(period_id) over the filtered rows with a period, NULL without any
latest_period_id(tbl, person_id, search_term) ==
    LET ps == { Val(r.period_id) :
                  r \in { x \in Filtered(tbl, person_id, search_term) : x.period_id # None } }
    IN  IF ps = {} THEN None ELSE Some(SetMax(ps))

\* the main query without its period_id condition
CandidatesOfAnyPeriod(tbl, person_id, search_term) == Filtered(tbl, person_id, search_term)

\* the rows of the main query before DISTINCT ON and LIMIT
Candidates(tbl, person_id, search_term) ==
    LET latest == latest_period_id(tbl, person_id, search_term)
    IN  { r \in Filtered(tbl, person_id, search_term) : latest # None /\ r.period_id = latest }

TotalVotes(r) == r.same + r.different

\* a sorts strictly before b under desc(score), desc(same + different); NULL scores first
Before(a, b) ==
    \/ a.score = None /\ b.score # None
    \/ a.score # None /\ b.score # None /\ Val(a.score) > Val(b.score)
    \/ a.score = b.score /\ TotalVotes(a) > TotalVotes(b)

Letter(c) == CHOOSE k \in 1..5 : <<"a", "e", "t", "u", "x">>[k] = LowerCase(c)

\* name a sorts before name b
RECURSIVE NameLess(_, _)
NameLess(a, b) ==
    IF a = <<>> THEN b # <<>>
    ELSE IF b = <<>> THEN FALSE
    ELSE IF Letter(Head(a)) # Letter(Head(b)) THEN Letter(Head(a)) < Letter(Head(b))
    ELSE NameLess(Tail(a), Tail(b))

\* ORDER BY person_id, name of rows that differ in name
RECURSIVE OrderByName(_)
OrderByName(S) ==
    IF S = {} THEN <<>>
    ELSE LET first == CHOOSE r \in S : \A x \in S \ {r} : NameLess(Val(r.name), Val(x.name))
         IN  <<first>> \o OrderByName(S \ {first})

\* DISTINCT ON (person_id, name): of each name the row that sorts first, any one of them
\* when several tie
Distinct(cands) ==
    LET names == { r.name : r \in cands }
    IN  { { f[n] : n \in names } :
            f \in { g \in [names -> cands] :
                      \A n \in names :
                         /\ g[n].name = n
                         /\ \A x \in cands : x.name = n => ~Before(x, g[n]) } }

Limit(s, n) == SubSeq(s, 1, Min(n, Len(s)))

GetMpVotingRecord ==
    \E person_id \in PersonIds, search_term \in SearchTerms, limit \in 1..MaxLimit :
       \E rows \in Distinct(Candidates(policyTbl, person_id, search_term)) :
          /\ record_call' = Some([person_id |-> person_id, search_term |-> search_term,
                                  limit |-> limit])
          /\ record_result' = Some(Limit(OrderByName(rows), limit))
          /\ UNCHANGED <<pipeVars, searchVars, loaderVars, metaVars, summaryVars, tfVars, entryPc,
                         stanceVars>>

\* the metadata tables hold any rows; only mp_policy_summary is read
VotingInit ==
    /\ PipelineIdle
    /\ ParseIdle
    /\ ListingIdle
    /\ ChunkIdle
    /\ TransformIdle
    /\ EntryIdle
    /\ VotingIdle
    /\ metaInput = [people |-> {}, memberships |-> {}, divisions |-> {}, votes |-> {},
                    policies |-> {}]
    /\ personTbl = {}
    /\ membershipTbl = {}
    /\ divisionTbl = {}
    /\ voteTbl = {}
    /\ metaRuns = 0
    /\ policyTbl \in SUBSET PolicyRows

VotingNext == GetMpVotingRecord

VotingSpec == VotingInit /\ [][VotingNext]_vars

\* the rows the latest call returned, as a set
RecordRows == { Val(record_result)[i] : i \in 1..Len(Val(record_result)) }

\* C23: the rows get_mp_voting_record returns all have the largest non-null period_id found
\* among the rows of the same person whose name matches the search term; no two of them
\* share a policy name; there are at most limit of them; and the list is empty when no row
\* matches
RecordOfLatestFilteredPeriod ==
    record_call # None =>
       LET c == Val(record_call)
           matching == Filtered(policyTbl, c.person_id, c.search_term)
           periods == { Val(r.period_id) : r \in { x \in matching : x.period_id # None } }
       IN  /\ \A r \in RecordRows :
                /\ r \in matching
                /\ r.period_id # None
                /\ \A p \in periods : p <= Val(r.period_id)
           /\ \A i, j \in 1..Len(Val(record_result)) :
                Val(record_result)[i].name = Val(record_result)[j].name => i = j
           /\ Len(Val(record_result)) <= c.limit
           /\ matching = {} => Val(record_result) = <<>>

\* a call returned a row of a period older than the table's latest one, although the
\* matching rows are of more than one period
C23Witness ==
    /\ record_call # None
    /\ Val(record_result) # <<>>
    /\ \E r \in RecordRows : \E x \in policyTbl :
          x.period_id # None /\ Val(x.period_id) > Val(r.period_id)
    /\ \E x, y \in Filtered(policyTbl, Val(record_call).person_id, Val(record_call).search_term) :
          x.period_id # None /\ y.period_id # None /\ x.period_id # y.period_id

\* C24: the rows get_mp_voting_record returns are in the order of alignment score
\* descending, then cast votes descending, and no matching row of the latest period that
\* was left out sorts before a returned one
RecordRankedByAlignment ==
    record_call # None =>
       LET c == Val(record_call)
           res == Val(record_result)
       IN  /\ \A i, j \in 1..Len(res) : i < j => ~Before(res[j], res[i])
           /\ \A r \in RecordRows :
                 \A x \in Candidates(policyTbl, c.person_id, c.search_term) :
                    x.name \notin { y.name : y \in RecordRows } => ~Before(x, r)

(***************************************************************************)
(* MetadataPipeline.run over MetadataRepository                            *)
(***************************************************************************)

\* the most runs of the metadata pipeline
MaxMetaRuns == 2
\* the most utterances ingestion persists
MaxStored == 2

\* memberships as load_memberships yields them: a date that does not parse is None
Lab12 == [membership_id |-> 1, person_id |-> 1, party |-> "Labour", start_date |-> Some(1), end_date |-> Some(2)]
Con22 == [membership_id |-> 2, person_id |-> 1, party |-> "Conservative", start_date |-> Some(2), end_date |-> Some(2)]
Lab1x == [membership_id |-> 3, person_id |-> 1, party |-> "Labour", start_date |-> Some(1), end_date |-> None]
MembershipFiles == { {}, {Lab12}, {Lab12, Con22}, {Lab1x} }

PolicyFile == { r \in PolicyRows : r.id \in {2, 3} }

MetaInputs ==
    { [people |-> {1}, memberships |-> ms, divisions |-> {}, votes |-> {}, policies |-> {}] :
        ms \in MembershipFiles }
    \cup
    { [people |-> {1, 2}, memberships |-> ms, divisions |-> {1}, votes |-> {1, 2},
       policies |-> PolicyFile] : ms \in MembershipFiles }

\* WHERE u.person_id = m.person_id AND u.date >= m.start_date AND u.date <= m.end_date;
\* a comparison with NULL is not true
Joins(u, m) ==
    /\ u.person_id = Some(m.person_id)
    /\ u.date # None /\ m.start_date # None /\ m.end_date # None
    /\ Val(u.date) >= Val(m.start_date)
    /\ Val(u.date) <= Val(m.end_date)

\* UPDATE utterance u SET party_at_time = m.party FROM membership m WHERE ...: what one row
\* becomes; a row that joins several memberships takes the party of any one of them, a row
\* that joins none is not updated
UpdatedRow(u, memberships) ==
    LET fit == { m \in memberships : Joins(u, m) }
    IN  IF fit = {} THEN {u}
        ELSE { [u EXCEPT !.party_at_time = Some(m.party)] : m \in fit }

update_party_at_time(utterances, memberships) ==
    LET n == Len(utterances)
        all == UNION { UpdatedRow(utterances[i], memberships) : i \in 1..n }
    IN  { us \in [1..n -> all] : \A i \in 1..n : us[i] \in UpdatedRow(utterances[i], memberships) }

notMeta == <<checkpointFile, chunkTbl, embeddingTbl, docSpeeches, pipeCtl, searchVars,
             loaderVars, summaryVars, tfVars, entryPc, votingVars>>

\* MetadataPipeline.run: load the four files, truncate_tables, insert people, memberships,
\* divisions and votes, update_party_at_time
MetadataRun ==
    /\ metaRuns < MaxMetaRuns
    /\ metaRuns' = metaRuns + 1
    /\ personTbl' = metaInput.people
    /\ membershipTbl' = metaInput.memberships
    /\ divisionTbl' = metaInput.divisions
    /\ voteTbl' = metaInput.votes
    /\ policyTbl' = {}
    /\ utteranceTbl' \in update_party_at_time(utteranceTbl, metaInput.memberships)
    /\ UNCHANGED <<metaInput, notMeta>>

\* the metadata files are replaced by a newer download
FilesChange ==
    /\ metaInput' \in MetaInputs \ {metaInput}
    /\ UNCHANGED <<personTbl, membershipTbl, divisionTbl, voteTbl, policyTbl, metaRuns,
                   utteranceTbl, notMeta>>

\* the utterances ingestion persists: _create_utterance sets no party_at_time
IngestedUtterances ==
    { [person_id |-> p, date |-> d, party_at_time |-> None] :
        p \in {None, Some(1)}, d \in {Some(1), Some(2)} }

\* an ingestion run persists an utterance
UtteranceIngested ==
    /\ Len(utteranceTbl) < MaxStored
    /\ \E u \in IngestedUtterances : utteranceTbl' = Append(utteranceTbl, u)
    /\ UNCHANGED <<metaVars, notMeta>>

MetadataInit ==
    /\ PipelineIdle
    /\ ParseIdle
    /\ ListingIdle
    /\ ChunkIdle
    /\ TransformIdle
    /\ EntryIdle
    /\ VotingIdle
    /\ metaInput \in MetaInputs
    /\ personTbl = {}
    /\ membershipTbl = {}
    /\ divisionTbl = {}
    /\ voteTbl = {}
    /\ policyTbl = {}
    /\ metaRuns = 0

MetadataNext ==
    \/ MetadataRun
    \/ FilesChange
    \/ UtteranceIngested

MetadataSpec == MetadataInit /\ [][MetadataNext]_vars

\* C25: a run of the metadata pipeline leaves each of the five metadata tables holding
\* exactly the rows of the input files
RunReplacesFiveTables ==
    [][metaRuns' # metaRuns =>
          /\ personTbl' = metaInput.people
          /\ membershipTbl' = metaInput.memberships
          /\ divisionTbl' = metaInput.divisions
          /\ voteTbl' = metaInput.votes
          /\ policyTbl' = metaInput.policies]_vars

\* C26: after a run of the metadata pipeline every persisted utterance has the party of a
\* loaded membership of its person whose interval holds its date, and no party when there
\* is no such membership
PartyFromLoadedMemberships ==
    [][metaRuns' # metaRuns =>
          \A i \in 1..Len(utteranceTbl') :
             LET u == utteranceTbl'[i]
                 fit == { m \in membershipTbl' : Joins(u, m) }
             IN  IF fit = {} THEN u.party_at_time = None
                 ELSE u.party_at_time \in { Some(m.party) : m \in fit }]_vars

(***************************************************************************)
(* scripts/add_debates_to_db.py up to pipeline.run()                       *)
(***************************************************************************)

\* a context text of so many tokens, and a summary of it; texts are told apart by their
\* number, as their SHA-256 hashes are
Original(t, n) == [text |-> t, tokens |-> n, summarized |-> FALSE]
Summary(t, n) == [text |-> t, tokens |-> n, summarized |-> TRUE]

\* summary cache files
AbsentCache == [kind |-> "absent", entries |-> EmptyDict]
MalformedCache == [kind |-> "malformed", entries |-> EmptyDict]
ObjectCache(entries) == [kind |-> "object", entries |-> entries]

\* StatementSummarizer._load_cache
_load_cache(f) == IF f.kind = "object" THEN f.entries ELSE EmptyDict

CheckpointFiles ==
    {AbsentFile, MalformedFile, UnreadableFile, NotAnObjectFile, NotAListFile}
    \cup { ObjectFile(s) : s \in SUBSET Docs }

CacheFiles ==
    { AbsentCache, MalformedCache, ObjectCache(EmptyDict),
      ObjectCache([t \in {1} |-> Summary(1, 2)]) }

entryRest == <<docSpeeches, pc, batch_number, batches_processed, loaded_df, batch_df,
               new_files, failedAt, endedBy, prevEnd, runs, crashes, ckptAtStart,
               rowsAtStart, handled, stored, completed, loads, skipped, searchVars,
               loaderVars, metaInput, metaRuns, tfVars, votingVars>>
database == <<utteranceTbl, chunkTbl, embeddingTbl, personTbl, membershipTbl, divisionTbl,
              voteTbl, policyTbl>>

\* StatementSummarizer(...): the constructor loads the cache file
ConstructSummarizer ==
    /\ entryPc = "start"
    /\ summary_cache' = _load_cache(cacheFile)
    /\ entryPc' = "summarizer"
    /\ UNCHANGED <<entryRest, database, checkpointFile, cacheFile, processed_files,
                   batch_size, max_batches>>

\* DebatePipeline(..., batch_size=2, max_batches=2, ...): the constructor loads the
\* checkpoint
ConstructPipeline ==
    /\ entryPc = "summarizer"
    /\ ~LoadCheckpointRaises(checkpointFile)
    /\ processed_files' = _load_checkpoint(checkpointFile)
    /\ batch_size' = 2
    /\ max_batches' = Some(2)
    /\ entryPc' = "pipeline"
    /\ UNCHANGED <<entryRest, database, checkpointFile, summaryVars>>

\* the constructor lets _load_checkpoint's exception through and the script ends
ConstructPipelineRaises ==
    /\ entryPc = "summarizer"
    /\ LoadCheckpointRaises(checkpointFile)
    /\ entryPc' = "raised"
    /\ UNCHANGED <<entryRest, database, checkpointFile, summaryVars, processed_files,
                   batch_size, max_batches>>

\* RESET_DATABASE is set: reset_db(drop=True) and pipeline.clear_checkpoint();
\* statement_summarizer.clear_cache() is commented out
ResetStep ==
    /\ entryPc = "pipeline"
    /\ utteranceTbl' = <<>>
    /\ chunkTbl' = <<>>
    /\ embeddingTbl' = <<>>
    /\ personTbl' = {}
    /\ membershipTbl' = {}
    /\ divisionTbl' = {}
    /\ voteTbl' = {}
    /\ policyTbl' = {}
    /\ checkpointFile' = AbsentFile
    /\ processed_files' = {}
    /\ entryPc' = "reset"
    /\ UNCHANGED <<entryRest, summaryVars, batch_size, max_batches>>

\* RESET_DATABASE is not set
ResetSkipped ==
    /\ entryPc = "pipeline"
    /\ entryPc' = "kept"
    /\ UNCHANGED <<entryRest, database, checkpointFile, summaryVars, processed_files,
                   batch_size, max_batches>>

\* the script starts on any database, checkpoint file and cache file
EntryInit ==
    /\ PipelineNotStarted
    /\ ParseIdle
    /\ ListingIdle
    /\ ChunkIdle
    /\ VotingIdle
    /\ checkpointFile \in CheckpointFiles
    /\ \/ utteranceTbl = <<>> /\ chunkTbl = <<>> /\ embeddingTbl = <<>>
       \/ utteranceTbl = StoredUtterances /\ chunkTbl \in StoredChunks
          /\ embeddingTbl \in StoredEmbeddings
    /\ metaInput = [people |-> {}, memberships |-> {}, divisions |-> {}, votes |-> {},
                    policies |-> {}]
    /\ personTbl \in {{}, {1, 2}}
    /\ membershipTbl = {}
    /\ divisionTbl = {}
    /\ voteTbl = {}
    /\ policyTbl = {}
    /\ metaRuns = 0
    /\ cacheFile \in CacheFiles
    /\ summary_cache = EmptyDict
    /\ tf_orig = <<>>
    /\ tf_df = <<>>
    /\ tf_step = "none"
    /\ TaskIdle
    /\ entryPc = "start"

EntryNext ==
    \/ ConstructSummarizer
    \/ ConstructPipeline
    \/ ConstructPipelineRaises
    \/ ResetStep
    \/ ResetSkipped

EntrySpec == EntryInit /\ [][EntryNext]_vars

\* C27: after the reset step of the ingestion script the checkpoint file is absent, the
\* in-memory processed set is empty, and the summary cache is empty on disk and in memory
ResetClearsCheckpointAndCache ==
    entryPc = "reset" =>
       /\ checkpointFile = AbsentFile
       /\ processed_files = {}
       /\ _load_cache(cacheFile) = EmptyDict
       /\ summary_cache = EmptyDict

\* C28: whatever the checkpoint file holds, constructing the pipeline never raises: the
\* processed set is the file's list when the file is an object with one, and empty
\* otherwise
CheckpointLoadNeverFails ==
    /\ entryPc # "raised"
    /\ entryPc = "pipeline" =>
          processed_files = (IF checkpointFile.kind = "object"
                             THEN checkpointFile.processed_files ELSE {})

(***************************************************************************)
(* The transformers in turn: StatementSummarizer, EmbeddingFormatter,      *)
(* ChunkingTransformer                                                     *)
(***************************************************************************)

\* the most rows of a frame handed to the transformers
MaxTfRows == 2

\* texts of more tokens are summarized
TokenThresholds == {5}
\* the lengths of the summaries the API returns
SummaryTokens == {2, 9}

AllTexts == <<Some(Original(1, 8)), Some(Original(2, 8)), Some(Original(3, 3))>>

\* the statement, main question and context question a record carries
ContextTexts ==
    { <<Some(Original(1, 8)), None, None>>,
      <<None, Some(Original(2, 8)), Some(Original(1, 8))>>,
      AllTexts }

TfBodies == { b \in Bodies : Len(b) \in {1, MaxSentences} /\ \A i \in 1..Len(b) : b[i].tokens = 4 }

\* a record as _parse_xml emits it: the current and the original fields hold the same text
ParsedRow(body, answer, texts) ==
    [is_answer |-> answer,
     utterance |-> Text(body, 0),
     original_utterance |-> Text(body, 0),
     statement_text |-> texts[1],
     original_statement_text |-> texts[1],
     question_text |-> texts[2],
     original_question_text |-> texts[2],
     context_question_text |-> texts[3],
     original_context_question_text |-> texts[3]]

ShortBodies == { b \in TfBodies : Len(b) = 1 }

\* short answers with every combination of context, long answers and a speech that is no
\* answer with all of it
ParsedRows ==
    { ParsedRow(b, TRUE, t) : b \in ShortBodies, t \in ContextTexts }
    \cup { ParsedRow(b, TRUE, AllTexts) : b \in TfBodies }
    \cup { ParsedRow(b, FALSE, AllTexts) : b \in ShortBodies }

\* the frames of a batch; speech_id tells the rows apart
ParsedFrames ==
    UNION { { [i \in 1..n |-> [speech_id |-> i, row |-> f[i]]] : f \in [1..n -> ParsedRows] } :
              n \in 1..MaxTfRows }

\* row.to_dict() with further keys set
WithFields(row, fields) ==
    [k \in DOMAIN row \cup DOMAIN fields |-> IF k \in DOMAIN fields THEN fields[k] ELSE row[k]]

\* _process_text: what a text of a batch becomes, given the cache when the batch began
ProcessText(text, threshold, cache) ==
    IF text = None THEN {text}
    ELSE IF Val(text).tokens <= threshold THEN {text}
    ELSE IF Val(text).text \in DOMAIN cache THEN {Some(cache[Val(text).text])}
    ELSE { Some(Summary(Val(text).text, n)) : n \in SummaryTokens }

\* _process_batch: the tasks of a batch all look the cache up before any of them stores
\* its summary, so equal texts are summarized once each and the cache keeps one of the
\* summaries
BatchOutcomes(texts, threshold, cache) ==
    LET n == Len(texts)
        missed == { Val(texts[i]).text : i \in { j \in 1..n : texts[j] # None
                                                      /\ Val(texts[j]).tokens > threshold
                                                      /\ Val(texts[j]).text \notin DOMAIN cache } }
        all == UNION { ProcessText(texts[i], threshold, cache) : i \in 1..n }
        results == { r \in [1..n -> all] :
                       \A i \in 1..n : r[i] \in ProcessText(texts[i], threshold, cache) }
        written(res) == { cache[t] : t \in DOMAIN cache }
                       \cup { Val(res[i]) : i \in { j \in 1..n : res[j] # None } }
        caches(res) ==
            { c \in [DOMAIN cache \cup missed -> written(res)] :
                \A t \in DOMAIN c :
                   IF t \in DOMAIN cache THEN c[t] = cache[t]
                   ELSE \E i \in 1..n :
                           texts[i] # None /\ Val(texts[i]).text = t /\ res[i] = Some(c[t]) }
    IN  UNION { { [results |-> res, cache |-> c] : c \in caches(res) } : res \in results }

\* a field that is not included is left alone
FieldOutcomes(include, texts, threshold, cache) ==
    IF include THEN BatchOutcomes(texts, threshold, cache)
    ELSE { [results |-> texts, cache |-> cache] }

Column(df, field) == [i \in 1..Len(df) |-> df[i].row[field]]

\* mutant: the summaries are written over the original fields
WithSummariesOverOriginals(row, s, q, cq) ==
    [row EXCEPT !.original_statement_text = s, !.original_question_text = q,
                !.original_context_question_text = cq]

\* df[field] = results for the three fields of FIELDS_TO_SUMMARIZE
WithSummaries(row, s, q, cq) ==
    [row EXCEPT !.statement_text = s, !.question_text = q, !.context_question_text = cq]

notTransform == <<pipeVars, searchVars, parseVars, listingVars, chunk_in, chunk_out,
                  metaVars, entryPc, votingVars, taskVars>>

\* StatementSummarizer.transform: the included fields in turn, the cache saved after each
Summarize ==
    /\ tf_step = "none"
    /\ \E inc \in [1..3 -> BOOLEAN], threshold \in TokenThresholds :
         \E o1 \in FieldOutcomes(inc[1], Column(tf_df, "statement_text"), threshold, summary_cache) :
           \E o2 \in FieldOutcomes(inc[2], Column(tf_df, "question_text"), threshold, o1.cache) :
             \E o3 \in FieldOutcomes(inc[3], Column(tf_df, "context_question_text"), threshold, o2.cache) :
                /\ tf_df' = [i \in 1..Len(tf_df) |->
                               [tf_df[i] EXCEPT !.row = WithSummaries(@, o1.results[i],
                                                                       o2.results[i], o3.results[i])]]
                /\ summary_cache' = o3.cache
                /\ cacheFile' = IF inc[1] \/ inc[2] \/ inc[3] THEN ObjectCache(o3.cache)
                                ELSE cacheFile
    /\ tf_step' = "summarized"
    /\ UNCHANGED <<tf_orig, chunk_cfg, notTransform>>

\* _summary_label, in tokens
_summary_label(current_text, original_text) ==
    IF current_text = None \/ original_text = None THEN 0
    ELSE IF current_text # original_text THEN 1 ELSE 0

\* the tokens of one line of the context block
ContextLine(include, current_text, original_text) ==
    IF include /\ current_text # None
    THEN Val(current_text).tokens + _summary_label(current_text, original_text)
    ELSE 0

\* the tokens of the context block _format_utterance builds: the questions and the
\* statement for an answer only, then the date
ContextBlock(row, inc) ==
    (IF row.is_answer
     THEN ContextLine(inc[3], row.context_question_text, row.original_context_question_text)
          + ContextLine(inc[2], row.question_text, row.original_question_text)
          + ContextLine(inc[1], row.statement_text, row.original_statement_text)
     ELSE 0) + 1

\* EmbeddingFormatter.transform
FormatRow(row, inc) ==
    LET utterance == _format_utterance(row.utterance, ContextBlock(row, inc))
    IN  WithFields(row, [utterance |-> utterance,
                         utterance_embedding_formatted |-> utterance,
                         token_count |-> FormatterCountTokens(utterance)])

Format ==
    /\ tf_step \in {"none", "summarized"}
    /\ \E inc \in [1..3 -> BOOLEAN] :
          tf_df' = [i \in 1..Len(tf_df) |-> [tf_df[i] EXCEPT !.row = FormatRow(@, inc)]]
    /\ tf_step' = "formatted"
    /\ UNCHANGED <<tf_orig, chunk_cfg, summaryVars, notTransform>>

RECURSIVE Explode(_, _)
\* the chunk rows of a frame: each is its row's dictionary with the chunk keys set
Explode(df, cfg) ==
    IF df = <<>> THEN <<>>
    ELSE LET chunks == ChunkRows(Head(df).row, cfg)
         IN  [k \in 1..Len(chunks) |->
                [speech_id |-> Head(df).speech_id, row |-> WithFields(Head(df).row, chunks[k])]]
             \o Explode(Tail(df), cfg)

\* ChunkingTransformer.transform
Chunk ==
    /\ tf_step = "formatted"
    /\ tf_df' = Explode(tf_df, chunk_cfg)
    /\ tf_step' = "chunked"
    /\ UNCHANGED <<tf_orig, chunk_cfg, summaryVars, notTransform>>

TransformInit ==
    /\ PipelineIdle
    /\ ParseIdle
    /\ ListingIdle
    /\ MetaIdle
    /\ EntryIdle
    /\ VotingIdle
    /\ chunk_in = <<>>
    /\ chunk_out = None
    /\ chunk_cfg \in { c \in ChunkConfigs :
                       c.max_seq_length = 13 /\ c.chunk_size = 8 /\ c.overlap = 5 }
    /\ cacheFile \in { AbsentCache, ObjectCache([t \in {1} |-> Summary(1, 2)]) }
    /\ summary_cache = _load_cache(cacheFile)
    /\ tf_orig \in ParsedFrames
    /\ tf_df = tf_orig
    /\ tf_step = "none"
    /\ TaskIdle

TransformNext ==
    \/ Summarize
    \/ Format
    \/ Chunk

TransformSpec == TransformInit /\ [][TransformNext]_vars

Originals(row) ==
    <<row.original_utterance, row.original_statement_text, row.original_question_text,
      row.original_context_question_text>>

\* C29: whichever transformers have run, every row, and every chunk row made from it, has
\* the original_utterance, original_statement_text, original_question_text and
\* original_context_question_text the parser emitted
OriginalFieldsKept ==
    /\ \A i \in 1..Len(tf_df) :
          Originals(tf_df[i].row) = Originals(tf_orig[tf_df[i].speech_id].row)
    /\ \A j \in 1..Len(tf_orig) : \E i \in 1..Len(tf_df) : tf_df[i].speech_id = j

\* a row whose main question was summarized and whose utterance was formatted was split
\* into several chunk rows
C29Witness ==
    /\ tf_step = "chunked"
    /\ \E i, j \in 1..Len(tf_df) :
          /\ i # j
          /\ tf_df[i].speech_id = tf_df[j].speech_id
          /\ tf_df[i].row.question_text # tf_df[i].row.original_question_text
          /\ tf_df[i].row.utterance # tf_df[i].row.original_utterance

(***************************************************************************)
(* The context fields of the records _parse_xml emits                      *)
(***************************************************************************)

\* C30: every record the parser emits with is_answer false has null statement,
\* main-question and context-question text and speaker fields
NonAnswerCarriesNoContext ==
    \A i \in 1..Len(records) :
        ~records[i].is_answer =>
            /\ records[i].statement_text = None
            /\ records[i].statement_speaker = None
            /\ records[i].question_text = None
            /\ records[i].question_speaker = None
            /\ records[i].context_question_text = None
            /\ records[i].context_question_speaker = None

(***************************************************************************)
(* StatementSummarizer.transform, task by task                             *)
(***************************************************************************)

\* the most processes that run the summarizer on the batch
MaxSummaryRuns == 2

\* FIELDS_TO_SUMMARIZE, in its order
Fields == <<"statement_text", "question_text", "context_question_text">>

SummarizerConfigs ==
    { [inc |-> i, threshold |-> t] :
        i \in { <<FALSE, TRUE, TRUE>>, <<TRUE, TRUE, TRUE>> }, t \in TokenThresholds }

\* batches of short answers
SummaryFrames ==
    { f \in ParsedFrames :
        \A i \in 1..Len(f) : f[i].row.is_answer /\ Len(f[i].row.utterance.body) = 1 }

Done(text) == [state |-> "done", result |-> text]
Calling(text) == [state |-> "calling", result |-> text]

\* mutant: the cache is not looked up
FirstStepWithoutLookup(text, threshold, cache) ==
    IF text = None THEN Done(text)
    ELSE IF Val(text).tokens <= threshold THEN Done(text)
    ELSE Calling(text)

\* _process_text up to its first await: a text that is null or short is returned, a text
\* whose hash is in the cache is answered from it, any other text is sent to the API
FirstStep(text, threshold, cache) ==
    IF text = None THEN Done(text)
    ELSE IF Val(text).tokens <= threshold THEN Done(text)
    ELSE IF Val(text).text \in DOMAIN cache THEN Done(Some(cache[Val(text).text]))
    ELSE Calling(text)

\* _transform_async has reached the end of the loop over the fields
StepAfter(field) == IF field = Len(Fields) THEN "summarized" ELSE "summarizing"

notSummary == <<pipeVars, searchVars, loaderVars, metaVars, entryPc, votingVars, tf_orig,
                sum_cfg>>

\* "continue": the include flag of the next field is off
FieldSkipped ==
    /\ tf_step \in {"none", "summarizing"}
    /\ tasks = <<>>
    /\ sum_field < Len(Fields)
    /\ ~sum_cfg.inc[sum_field + 1]
    /\ sum_field' = sum_field + 1
    /\ tf_step' = StepAfter(sum_field + 1)
    /\ UNCHANGED <<tf_df, tasks, api_calls, sum_runs, summaryVars, notSummary>>

\* _process_batch creates the tasks of the next field and gathers them: the event loop
\* runs every task to its first await before any response is handled
BatchGathered ==
    /\ tf_step \in {"none", "summarizing"}
    /\ tasks = <<>>
    /\ sum_field < Len(Fields)
    /\ sum_cfg.inc[sum_field + 1]
    /\ LET texts == Column(tf_df, Fields[sum_field + 1])
       IN  /\ tasks' = [i \in 1..Len(texts) |->
                           FirstStep(texts[i], sum_cfg.threshold, summary_cache)]
           /\ api_calls' = api_calls \cup
                  { [field |-> sum_field + 1, task |-> i, text |-> Val(texts[i]).text] :
                      i \in { j \in 1..Len(texts) :
                                FirstStep(texts[j], sum_cfg.threshold, summary_cache).state
                                    = "calling" } }
    /\ tf_step' = "summarizing"
    /\ UNCHANGED <<tf_df, sum_field, sum_runs, summaryVars, notSummary>>

\* a _summarize call returns and its task stores the summary in _cache
CallReturns ==
    /\ tf_step = "summarizing"
    /\ \E i \in 1..Len(tasks), n \in SummaryTokens :
          /\ tasks[i].state = "calling"
          /\ LET t == Val(tasks[i].result).text
                 summary == Summary(t, n)
             IN  /\ summary_cache' = [k \in DOMAIN summary_cache \cup {t} |->
                                         IF k = t THEN summary ELSE summary_cache[k]]
                 /\ tasks' = [tasks EXCEPT ![i] = Done(Some(summary))]
    /\ UNCHANGED <<tf_df, tf_step, sum_field, api_calls, sum_runs, cacheFile, notSummary>>

\* a _summarize call raises: gather raises, and the exception leaves _process_batch
\* before _save_cache, transform and the pipeline's run
CallFails ==
    /\ tf_step = "summarizing"
    /\ \E i \in 1..Len(tasks) : tasks[i].state = "calling"
    /\ tasks' = <<>>
    /\ tf_step' = "failed"
    /\ UNCHANGED <<tf_df, sum_field, api_calls, sum_runs, summaryVars, notSummary>>

\* every task of the batch is done: _save_cache(), and df[field] = results
BatchDone ==
    /\ tf_step = "summarizing"
    /\ tasks # <<>>
    /\ \A i \in 1..Len(tasks) : tasks[i].state = "done"
    /\ cacheFile' = ObjectCache(summary_cache)
    /\ tf_df' = [i \in 1..Len(tf_df) |->
                    [tf_df[i] EXCEPT !.row[Fields[sum_field + 1]] = tasks[i].result]]
    /\ tasks' = <<>>
    /\ sum_field' = sum_field + 1
    /\ tf_step' = StepAfter(sum_field + 1)
    /\ UNCHANGED <<api_calls, sum_runs, summary_cache, notSummary>>

\* the pipeline is run again in a new process: the summarizer loads the cache file and is
\* handed the batch anew
NextProcess ==
    /\ tf_step \in {"summarized", "failed"}
    /\ sum_runs < MaxSummaryRuns
    /\ sum_runs' = sum_runs + 1
    /\ summary_cache' = _load_cache(cacheFile)
    /\ tf_df' = tf_orig
    /\ tf_step' = "none"
    /\ sum_field' = 0
    /\ tasks' = <<>>
    /\ api_calls' = {}
    /\ UNCHANGED <<cacheFile, notSummary>>

SummaryInit ==
    /\ PipelineIdle
    /\ ParseIdle
    /\ ListingIdle
    /\ ChunkIdle
    /\ MetaIdle
    /\ EntryIdle
    /\ VotingIdle
    /\ cacheFile \in { AbsentCache, ObjectCache([t \in {1} |-> Summary(1, 2)]) }
    /\ summary_cache = _load_cache(cacheFile)
    /\ tf_orig \in SummaryFrames
    /\ tf_df = tf_orig
    /\ tf_step = "none"
    /\ sum_cfg \in SummarizerConfigs
    /\ sum_field = 0
    /\ tasks = <<>>
    /\ api_calls = {}
    /\ sum_runs = 0

SummaryNext ==
    \/ FieldSkipped
    \/ BatchGathered
    \/ CallReturns
    \/ CallFails
    \/ BatchDone
    \/ NextProcess

SummarySpec == SummaryInit /\ [][SummaryNext]_vars

\* the text is one the summarizer sends to the API unless the cache answers it
IsLongText(text) == text # None /\ Val(text).tokens > sum_cfg.threshold

\* C31: while a process runs, a cache entry no call of the transform was issued for stays
\* as it is, no call is issued for a text whose hash is in the cache, and such a text is
\* replaced by the cached summary;
\* the tasks of one batch whose texts are the same and not in the cache issue a call each
CachedTextIsNotSummarizedAgain ==
    [][sum_runs' = sum_runs =>
          /\ \A t \in DOMAIN summary_cache :
                (\A c \in api_calls : c.text # t) =>
                    t \in DOMAIN summary_cache' /\ summary_cache'[t] = summary_cache[t]
          /\ \A c \in api_calls' \ api_calls : c.text \notin DOMAIN summary_cache
          /\ (tasks = <<>> /\ tasks' # <<>>) =>
                LET texts == Column(tf_df, Fields[sum_field + 1])
                IN  \A i \in 1..Len(texts) :
                       IF IsLongText(texts[i]) /\ Val(texts[i]).text \in DOMAIN summary_cache
                       THEN tasks'[i] = Done(Some(summary_cache[Val(texts[i]).text]))
                       ELSE IsLongText(texts[i]) =>
                               [field |-> sum_field + 1, task |-> i,
                                text |-> Val(texts[i]).text] \in api_calls' \ api_calls
          /\ (tasks # <<>> /\ tasks' = <<>> /\ tf_step' # "failed") =>
                \A i \in 1..Len(tasks) :
                   tf_df'[i].row[Fields[sum_field + 1]] = tasks[i].result]_vars

\* in the second process two tasks of a batch have issued a call each for the same text,
\* and a later batch is answered from the cache
C31Witness ==
    /\ sum_runs > 0
    /\ \E c, e \in api_calls : c.field = e.field /\ c.text = e.text /\ c.task # e.task
    /\ tasks # <<>>
    /\ 1 \in DOMAIN summary_cache
    /\ \E i \in 1..Len(tasks) :
          /\ tasks[i] = Done(Some(summary_cache[1]))
          /\ \A c \in api_calls : c.text # 1

\* C35: when a summarization call fails, every summary obtained before it is in the cache
\* file
ObtainedSummariesArePersisted ==
    tf_step = "failed" =>
       \A t \in DOMAIN summary_cache :
          /\ t \in DOMAIN _load_cache(cacheFile)
          /\ _load_cache(cacheFile)[t] = summary_cache[t]

(***************************************************************************)
(* Emitted records and speeches without a speaker                          *)
(***************************************************************************)

\* the heading, statement and question fields of a record
ContextFields(r) ==
    <<r.oral_heading, r.major_heading, r.minor_heading,
      r.statement_text, r.statement_id, r.statement_speaker,
      r.question_text, r.question_id, r.question_speaker,
      r.context_question_text, r.context_question_id, r.context_question_speaker,
      r.context_question_type>>

\* the same fields of the context dictionary
ContextValues(ctx) ==
    <<ctx["oral_heading"], ctx["major_heading"], ctx["minor_heading"],
      ctx["current_statement"], ctx["current_statement_id"], ctx["current_statement_speaker"],
      ctx["current_question"], ctx["current_question_id"], ctx["current_question_speaker"],
      ctx["current_context_question"], ctx["current_context_question_id"],
      ctx["current_context_question_speaker"], ctx["current_context_question_type"]>>

\* C32: a record takes the values of the context at its emission, no later heading or
\* speech changes a record already emitted, and the rows returned have the heading,
\* statement and question fields their records were emitted with
RecordIsSnapshot ==
    [][/\ Len(records') >= Len(records)
       /\ \A i \in 1..Len(records) : records'[i] = records[i]
       /\ Len(records') > Len(records) =>
             ContextFields(records'[Len(records')]) = ContextValues(context')
       /\ parsed'.how = "returned" =>
             \A j \in 1..Len(parsed'.df) :
                \E i \in 1..Len(records) :
                   /\ records[i].speech_id = parsed'.df[j].speech_id
                   /\ ContextFields(parsed'.df[j]) = ContextFields(records[i])]_vars

\* the document was returned with a record whose statement and heading have both been
\* replaced in the context since its emission
C32Witness ==
    /\ parsed.how = "returned"
    /\ \E j \in 1..Len(parsed.df) :
          /\ parsed.df[j].statement_text # None
          /\ parsed.df[j].statement_text # context["current_statement"]
          /\ parsed.df[j].minor_heading # context["minor_heading"]

\* C33: no row returned is of a speech marked nospeaker="true"; and an answer that
\* follows such a statement speech carries that speech as its statement, with the
\* question fields cleared
DroppedSpeechStillSetsContext ==
    /\ parsed.how = "returned" =>
          \A j \in 1..Len(parsed.df) :
             /\ parsed.df[j].nospeaker # Some("true")
             /\ elems[Pos(parsed.df[j])].nospeaker # Some("true")
    /\ \A i \in 1..Len(records) :
          LET p == Pos(records[i])
          IN  (/\ p > 1
               /\ IsSpeechOf(elems[p - 1], StartStatement)
               /\ elems[p - 1].nospeaker = Some("true")
               /\ records[i].type = StartAnswer) =>
                  /\ records[i].statement_text = Some(speech_text(elems[p - 1]))
                  /\ records[i].statement_id = elems[p - 1].id
                  /\ QuestionFieldsNull(records[i])

\* a question, a statement without a speaker and an answer were met in this order, and the
\* rows returned hold the answer but not the statement
C33Witness ==
    /\ parsed.how = "returned"
    /\ Len(elems) >= 3
    /\ \E p \in 3..Len(elems) :
          /\ IsSpeechOf(elems[p - 2], StartQuestion)
          /\ IsSpeechOf(elems[p - 1], StartStatement)
          /\ elems[p - 1].nospeaker = Some("true")
          /\ IsSpeechOf(elems[p], StartAnswer)
          /\ \E j \in 1..Len(parsed.df) : Pos(parsed.df[j]) = p
          /\ \A j \in 1..Len(parsed.df) : Pos(parsed.df[j]) # p - 1

(***************************************************************************)
(* The chunks of a long utterance                                          *)
(***************************************************************************)

\* the sentences of the chunk at place j of the row at place i
ChunkBody(i, j) == ChunksOfRow(i)[j].chunk_text.body

\* effective_chunk_size of the row at place i
EffectiveChunkSize(i) ==
    LET a == chunk_cfg.chunk_size
        b == chunk_cfg.max_seq_length - chunk_in[i].utterance.context - Buffer
    IN  IF a < b THEN a ELSE b

\* the sentences at the head of chunk b that chunk a has
SeedLen(a, b) == Cardinality({x \in 1..Len(b) : b[x].k <= a[Len(a)].k})

\* C34: the chunk after a closed chunk starts with the longest run of sentences at
\* the end of the closed chunk whose tokens sum to the overlap at most, in their
\* order, and goes on with the sentence that did not fit the closed chunk
SeedIsLongestFittingSuffix ==
    chunk_out # None =>
        \A i \in 1..Len(chunk_in) :
            (Single(i) /\ IsLong(i)) =>
                LET cs == ChunksOfRow(i)
                    size == EffectiveChunkSize(i)
                IN  \A j \in 1..(Len(cs) - 1) :
                        LET a == cs[j].chunk_text.body
                            b == cs[j + 1].chunk_text.body
                            n == SeedLen(a, b)
                            seed == SubSeq(b, 1, n)
                        IN  /\ seed = SubSeq(a, Len(a) - n + 1, Len(a))
                            /\ SumTokens(seed) <= chunk_cfg.overlap
                            /\ n < Len(a) =>
                                  SumTokens(seed) + a[Len(a) - n].tokens > chunk_cfg.overlap
                            /\ Len(b) > n
                            /\ b[n + 1].k = a[Len(a)].k + 1
                            /\ SumTokens(a) + b[n + 1].tokens > size

\* a closed chunk of three sentences gave the last two to the next chunk, the first of
\* the three being too much for the overlap
C34Witness ==
    /\ chunk_out # None
    /\ Len(chunk_in) = 1
    /\ IsLong(1)
    /\ \E j \in 1..(Len(ChunksOfRow(1)) - 1) :
          /\ Len(ChunkBody(1, j)) = 3
          /\ SeedLen(ChunkBody(1, j), ChunkBody(1, j + 1)) = 2

\* C38 as stated: when no sentence of a long utterance has more tokens than the
\* effective chunk size, no chunk has
ChunkWithinBudget ==
    chunk_out # None =>
        \A i \in 1..Len(chunk_in) :
            (/\ Single(i)
             /\ IsLong(i)
             /\ \A x \in 1..Len(chunk_in[i].utterance.body) :
                   chunk_in[i].utterance.body[x].tokens <= EffectiveChunkSize(i)) =>
                \A j \in 1..Len(ChunksOfRow(i)) :
                    SumTokens(ChunkBody(i, j)) <= EffectiveChunkSize(i)

\* C39: the chunks of a long utterance are as many as its sentences at most and one
\* at least, every sentence is in a chunk, a chunk is a run of consecutive sentences,
\* no chunk starts before the chunk before it does, and every chunk ends with a
\* sentence later than all sentences of the chunks before it
ChunksKeepSentences ==
    chunk_out # None =>
        \A i \in 1..Len(chunk_in) :
            (Single(i) /\ IsLong(i)) =>
                LET sentences == chunk_in[i].utterance.body
                    cs == ChunksOfRow(i)
                    n == Len(cs)
                IN  /\ n >= 1
                    /\ n <= Len(sentences)
                    /\ \A x \in 1..Len(sentences) :
                          \E j \in 1..n : \E y \in 1..Len(cs[j].chunk_text.body) :
                             cs[j].chunk_text.body[y] = sentences[x]
                    /\ \A j \in 1..n :
                          LET b == cs[j].chunk_text.body
                          IN  /\ b # <<>>
                              /\ \A y \in 1..Len(b) :
                                    /\ b[y].k \in 1..Len(sentences)
                                    /\ b[y] = sentences[b[y].k]
                                    /\ y > 1 => b[y].k = b[y - 1].k + 1
                              /\ j > 1 =>
                                    LET a == cs[j - 1].chunk_text.body
                                    IN  /\ b[Len(b)].k > a[Len(a)].k
                                        /\ b[1].k >= a[1].k

\* an utterance of four sentences with no room left for content and an overlap above
\* that, cut into four chunks, and the last has more sentences than one
C39Witness ==
    /\ chunk_out # None
    /\ Len(chunk_in) = 1
    /\ IsLong(1)
    /\ EffectiveChunkSize(1) <= 0
    /\ chunk_cfg.overlap > 0
    /\ Len(chunk_in[1].utterance.body) = 4
    /\ Len(ChunksOfRow(1)) = 4
    /\ Len(ChunkBody(1, 4)) > 1

(***************************************************************************)
(* Alignment scores and stance labels                                      *)
(***************************************************************************)

MaxVotes == 3

\* the vote counts of a row of policy_calc_to_load.parquet: the file is read
\* as it is, no column is checked for its sign
VoteCounts == -1..MaxVotes
CalcRows ==
    [num_votes_same : VoteCounts, num_strong_votes_same : VoteCounts,
     num_votes_different : VoteCounts, num_strong_votes_different : VoteCounts]

\* a score is the quotient num / den of two integers, den not zero
Score(num, den) == [num |-> num, den |-> den]

\* score >= bound
AtLeast(score, bound) ==
    IF score.den > 0 THEN score.num >= bound * score.den
    ELSE score.num <= bound * score.den

\* score < bound
Below(score, bound) == ~AtLeast(score, bound)

\* Metadata._calculate_alignment_score
_calculate_alignment_score(num_votes_same, num_strong_votes_same, num_votes_different, num_strong_votes_different) ==
    LET votes_for_policy == num_votes_same + num_strong_votes_same
        votes_against_policy == num_votes_different + num_strong_votes_different
        total_cast_votes == votes_for_policy + votes_against_policy
    IN  IF total_cast_votes = 0 THEN None
        ELSE Some(Score(votes_for_policy * 100, total_cast_votes))

Raised == [how |-> "raised"]
Label(text) == [how |-> "returned", label |-> text]

\* Metadata._score_to_stance_label
_score_to_stance_label(score) ==
    IF score = None THEN Label("No voting evidence")
    ELSE IF AtLeast(Val(score), 95) THEN Label("consistently voted for")
    ELSE IF AtLeast(Val(score), 85) THEN Label("almost always voted for")
    ELSE IF AtLeast(Val(score), 60) THEN Label("generally voted for")
    ELSE IF AtLeast(Val(score), 40) THEN Label("voted a mixture of for and against")
    ELSE IF AtLeast(Val(score), 15) THEN Label("generally voted against")
    ELSE IF AtLeast(Val(score), 5) THEN Label("almost always voted against")
    ELSE IF AtLeast(Val(score), -1) THEN Label("consistently voted against")
    ELSE Raised

notStance == <<pipeVars, searchVars, loaderVars, metaVars, summaryVars, tfVars, entryPc,
               record_call, record_result>>

\* load_mp_policy_summaries on the row: the score, then the label of the score
LoadMpPolicySummaries ==
    /\ calc_row # None
    /\ stance = None
    /\ LET row == Val(calc_row)
           score == _calculate_alignment_score(row.num_votes_same, row.num_strong_votes_same,
                                               row.num_votes_different,
                                               row.num_strong_votes_different)
           out == _score_to_stance_label(score)
       IN  stance' = Some(IF out = Raised THEN Raised
                          ELSE [how |-> "returned", score |-> score, label |-> out.label])
    /\ UNCHANGED <<calc_row, notStance>>

\* the file is replaced by another
NextCalcFile ==
    /\ stance # None
    /\ \E row \in CalcRows : calc_row' = Some(row)
    /\ stance' = None
    /\ UNCHANGED notStance

StanceInit ==
    /\ PipelineIdle
    /\ ParseIdle
    /\ ListingIdle
    /\ ChunkIdle
    /\ MetaIdle
    /\ TransformIdle
    /\ EntryIdle
    /\ record_call = None
    /\ record_result = None
    /\ calc_row \in {Some(row) : row \in CalcRows}
    /\ stance = None

StanceNext ==
    \/ LoadMpPolicySummaries
    \/ NextCalcFile

StanceSpec == StanceInit /\ [][StanceNext]_vars

\* the score of the row at hand
RowScore ==
    LET row == Val(calc_row)
    IN  _calculate_alignment_score(row.num_votes_same, row.num_strong_votes_same,
                                   row.num_votes_different, row.num_strong_votes_different)

\* the label of a score between 0 and 100, by the thresholds
BandLabel(score) ==
    IF AtLeast(score, 95) THEN "consistently voted for"
    ELSE IF AtLeast(score, 85) THEN "almost always voted for"
    ELSE IF AtLeast(score, 60) THEN "generally voted for"
    ELSE IF AtLeast(score, 40) THEN "voted a mixture of for and against"
    ELSE IF AtLeast(score, 15) THEN "generally voted against"
    ELSE IF AtLeast(score, 5) THEN "almost always voted against"
    ELSE "consistently voted against"

\* score <= bound
AtMost(score, bound) ==
    IF score.den > 0 THEN score.num <= bound * score.den
    ELSE score.num >= bound * score.den

InBand(score) == AtLeast(score, 0) /\ AtMost(score, 100)

\* C36 as stated: a row without votes cast gets "No voting evidence", a score from 0
\* to 100 gets the label of its band, and a score below 0 or above 100 makes the load
\* fail
OutOfBandScoreIsRejected ==
    stance # None =>
        IF RowScore = None
        THEN Val(stance) = [how |-> "returned", score |-> None,
                            label |-> "No voting evidence"]
        ELSE IF InBand(Val(RowScore))
        THEN Val(stance) = [how |-> "returned", score |-> RowScore,
                            label |-> BandLabel(Val(RowScore))]
        ELSE Val(stance) = Raised

(***************************************************************************)
(* insert_batch_with_chunks on frames whose speech_id is shared or missing *)
(***************************************************************************)

MaxInserts == 2

\* the id attribute of a speech: elem.get("id") is None when it is missing
SpeechIds == {None, <<1, 1>>, <<2, 1>>}

\* two utterances of a batch, of different speakers, and the texts of their chunks
BatchUtterances ==
    {<<[xml_path |-> 1, speech_id |-> a, date |-> 1, person_id |-> Some(1),
        utterance |-> {"tax"}],
       [xml_path |-> d, speech_id |-> b, date |-> 1, person_id |-> Some(2),
        utterance |-> {"nhs"}]>> : a \in SpeechIds, b \in SpeechIds, d \in 1..2}
ChunkTexts == {<<{"tax"}>>, <<{"tax"}, {"nhs"}>>}

\* the frames handed to insert_batch_with_chunks: one row per chunk, with its vector
EmbeddedFrames ==
    {WithEmbeddings(ExplodeRow(us[1], c1, 1) \o ExplodeRow(us[2], c2, 1)) :
        us \in BatchUtterances, c1 \in ChunkTexts, c2 \in ChunkTexts}

\* UtteranceRepository.insert_batch_with_chunks(df, embedding_model_name)
InsertBatch ==
    /\ batches_processed < MaxInserts
    /\ \E df \in EmbeddedFrames :
          /\ batch_df' = df
          /\ insert_batch_with_chunks(df)
    /\ batches_processed' = batches_processed + 1
    /\ UNCHANGED <<docSpeeches, checkpointFile, pc, batch_size, max_batches, processed_files,
                   batch_number, loaded_df, new_files, failedAt, endedBy, prevEnd, runs,
                   crashes, ckptAtStart, rowsAtStart, handled, stored, completed, loads,
                   skipped, searchVars, loaderVars, auxVars>>

InsertInit ==
    /\ PipelineIdle
    /\ ParseIdle
    /\ ListingIdle
    /\ ChunkIdle
    /\ AuxIdle

InsertNext == InsertBatch

InsertSpec == InsertInit /\ [][InsertNext]_vars

\* the utterances of a frame: the speaker and the document tell them apart here
SpokenIn(df) == {<<df[k].xml_path, df[k].person_id>> : k \in 1..Len(df)}

\* C40 as stated: a call adds one utterance row for every utterance of the frame, one
\* chunk row for every row of the frame, linked to the row of the utterance the chunk was
\* cut from, and one vector for every chunk, whatever the speech_id values are
InsertKeepsEveryUtterance ==
    [][Len(chunkTbl') > Len(chunkTbl) =>
          LET df == batch_df'
              newU == SubSeq(utteranceTbl', Len(utteranceTbl) + 1, Len(utteranceTbl'))
              newC == SubSeq(chunkTbl', Len(chunkTbl) + 1, Len(chunkTbl'))
              newE == SubSeq(embeddingTbl', Len(embeddingTbl) + 1, Len(embeddingTbl'))
          IN  /\ Len(newU) = Cardinality(SpokenIn(df))
              /\ \A u \in SpokenIn(df) :
                    \E k \in 1..Len(newU) : <<newU[k].xml_path, newU[k].person_id>> = u
              /\ Len(newC) = Len(df)
              /\ \A k \in 1..Len(df) :
                    \E j \in 1..Len(newU) :
                       /\ newU[j].id = newC[k].utterance_id
                       /\ newU[j].xml_path = df[k].xml_path
                       /\ newU[j].person_id = df[k].person_id
              /\ Len(newE) = Len(df)
              /\ \A k \in 1..Len(df) :
                    /\ newE[k].chunk_id = newC[k].id
                    /\ newE[k].embedding = df[k].embedding]_vars

(***************************************************************************)
(* The run under fair scheduling                                           *)
(***************************************************************************)

\* run is sequential code: a step that can be taken is taken, unless the step raises or
\* the process dies, which no fairness is asked of
FairSpec ==
    /\ Init
    /\ [][Next]_vars
    /\ WF_vars(IterExhausted)
    /\ WF_vars(BreakAtMaxBatches)
    /\ WF_vars(SkipBatch)
    /\ WF_vars(TakeBatch)
    /\ WF_vars(TransformOk)
    /\ WF_vars(EmbedOk)
    /\ WF_vars(InsertOk)
    /\ WF_vars(MarkProcessed)
    /\ WF_vars(SaveOk)

\* the run at hand has no max_batches and is at the head of its loop, and document d has
\* an utterance at least and is not in the checkpoint
AwaitsIngestion(d) ==
    /\ pc = "loop"
    /\ max_batches = None
    /\ docSpeeches[d] > 0
    /\ d \notin processed_files

\* a step of the run raised, or the process died
BatchFailed == pc \in {"raised", "idle"}

\* C37 as stated: in a run without max_batches in which no step raises, every document
\* that has an utterance and is not in the checkpoint is persisted and written to the
\* checkpoint file in the end, whatever the other documents hold
ParseableDocumentEventuallyIngested ==
    \A d \in Docs :
        AwaitsIngestion(d) ~> ((Persisted(d) /\ d \in OnDisk) \/ BatchFailed)

====
